---------------------------- MODULE Spec2Model ----------------------------
(***************************************************************************)
(* Verification model of the analytical core of curr-grant-analysis:       *)
(*   src/src/analysis/anomaly_detector.py   (AnomalyDetector)              *)
(*   src/src/analysis/grant_impact.py       (GrantImpactAnalyzer)          *)
(*   src/src/data_loaders/external_data.py  (ExternalDataFetcher)          *)
(*                                                                         *)
(* Dates are whole days (integers); a timedelta of d days is the integer   *)
(* d and timedelta(weeks=w) is 7*w.  Rates and prices are integers; every  *)
(* quotient the code computes in floating point is kept here as an exact   *)
(* fraction [num, den] with den > 0 and compared by cross-multiplication.  *)
(***************************************************************************)
EXTENDS Integers, Sequences, FiniteSets, TLC

VARIABLES
    fx_data,        \* AnomalyDetector.fx_data: the detector's copy of the rate series
    det_call,       \* arguments of the last detect_steep_movements call
    anomalies,      \* list returned by the last detect_steep_movements call
    det_pc,         \* "idle" before any call, "detected" after one
    commodity_data, \* the caller's commodity map; AnomalyDetector.commodity_data is this object
    cor_anomaly,    \* the anomaly passed to the last correlate_with_commodities call
    cor_result,     \* what that call returned
    cor_pc,         \* "idle" before any call, "correlated" after one
    grants_data,    \* AnomalyDetector.grants_data: the detector's copy of the grants table
    external_fetcher, \* AnomalyDetector.external_fetcher: "None" or "ExternalDataFetcher"
    imf_cache,      \* per country code, the file imf_<country>_press.json: "absent",
                    \* "valid" or "corrupt"
    news_cache,     \* the file news_enhanced_<country>_<start>_<end>.json
    prov_call,      \* the last call that may use the provider, with what it met
    grant_result,   \* what correlate_with_grants returned to that call
    ext_events,     \* what get_external_events returned to that call
    lw_result,      \* what check_correlations_lightweight returned
    policy_rates,   \* the rate series get_policy_rates returned to the last get_external_events
    pre_call,       \* arguments of the last calculate_pre_trend call
    pre_data,       \* the rows that call selected (its local pre_data)
    pre_metrics,    \* what that call returned
    post_call,      \* arguments of the last calculate_post_impact call
    post_data,      \* the rows that call selected (its local post_data)
    post_metrics,   \* what that call returned
    commodity_metrics, \* what the last assess_commodity_influence call returned
    trend_status,   \* what the last determine_trend_break call returned
    impact_score,   \* what the last calculate_impact_score call returned
    analysis_call,  \* arguments of the last analyze_all_grants call
    analysis_results, \* the list that call returned
    grant_call,     \* arguments of the last correlate_with_grants call
    commodity_call, \* arguments of the last assess_commodity_influence call
    imf_files,      \* the files of IMF_DIR, in glob order, as rows of raw cells
    wb_files,       \* the files of WORLDBANK_DIR, in glob order
    std_grants,     \* the table the last standardize_grants call returned
    etl_pc,         \* "idle" before any standardize_grants call, "standardized" after one
    fx_cache,       \* per currency, the file <currency>_fx_rates.csv of FX_DIR
    comm_cache,     \* per commodity, the file <commodity>_prices.csv: "absent", "fresh"
                    \* or "expired"
    fx_call,        \* the last get_fx_data call, with the caches and the network it met
    fx_result,      \* per currency of that call, what it returned and how many fetches it made
    prefetch_call,  \* the last prefetch_all_data call
    selected_currency, \* st.session_state['selected_currency'] of the dashboard
    notes_file,     \* the file anomaly_notes.json: anomaly id -> note text
    note_view,      \* the note the Research Notes box last showed, and for what
    note_saves      \* history: every save_note call made, with the currency on screen

detVars == <<fx_data, det_call, anomalies, det_pc>>
corVars == <<commodity_data, cor_anomaly, cor_result, cor_pc>>
provVars == <<grants_data, external_fetcher, imf_cache, news_cache, prov_call,
              grant_result, ext_events, lw_result, policy_rates>>

windowVars == <<pre_call, pre_data, pre_metrics, post_call, post_data, post_metrics>>
scoreVars == <<commodity_metrics, trend_status, impact_score>>
analysisVars == <<analysis_call, analysis_results>>
etlVars == <<imf_files, wb_files, std_grants, etl_pc>>
fxVars == <<fx_cache, comm_cache, fx_call, fx_result, prefetch_call>>
noteVars == <<selected_currency, notes_file, note_view, note_saves>>
loaderVars == <<etlVars, fxVars, noteVars>>
anVars == <<windowVars, scoreVars, analysisVars, grant_call, commodity_call, loaderVars>>

vars == <<detVars, corVars, provVars, anVars>>

-----------------------------------------------------------------------------
(* Bounds of the model *)

MaxLen == 3         \* longest rate series
MaxDay == 8         \* rate series are dated within 0..MaxDay

Days == 0..MaxDay
Rates == {0, 100, 110}
Thresholds == {5, 10}
WindowDays == {2, 30}

-----------------------------------------------------------------------------
(* Helpers *)

Abs(x) == IF x < 0 THEN 0 - x ELSE x

Range(s) == {s[k] : k \in 1..Len(s)}

\* a fraction a is below / equal to a fraction b (denominators positive)
FracLt(a, b) == a.num * b.den < b.num * a.den
FracEq(a, b) == a.num * b.den = b.num * a.den
FracAbs(a) == [num |-> Abs(a.num), den |-> a.den]

\* every sequence of length 0..n of elements of S
SeqsUpTo(S, n) == UNION {[1..k -> S] : k \in 0..n}

\* rate series the caller can hand over: dates unique, rows oldest first (as the
\* loaders return them) or newest first
RateSeries ==
    {s \in SeqsUpTo([date : Days, rate : Rates], MaxLen) :
        \/ \A a, b \in 1..Len(s) : a < b => s[a].date < s[b].date
        \/ \A a, b \in 1..Len(s) : a < b => s[a].date > s[b].date}

-----------------------------------------------------------------------------
(* AnomalyDetector.detect_steep_movements *)

DEDUP_DAYS == 7

RECURSIVE InsertByDate(_, _)
InsertByDate(row, s) ==
    IF s = <<>> THEN <<row>>
    ELSE IF row.date < Head(s).date THEN <<row>> \o s
    ELSE <<Head(s)>> \o InsertByDate(row, Tail(s))

\* fx_sorted = self.fx_data.sort_values('date').reset_index(drop=True)
RECURSIVE sort_values_date(_)
sort_values_date(df) ==
    IF df = <<>> THEN <<>>
    ELSE InsertByDate(df[Len(df)], sort_values_date(SubSeq(df, 1, Len(df) - 1)))

\* window_mask: the later points within (current_date, current_date + window_days]
window_mask(row_date, current_date, window_days) ==
    row_date > current_date /\ row_date <= current_date + window_days

\* ((end_rate - current_rate) / current_rate) * 100, or 0 when current_rate = 0
change_percent_of(current_rate, end_rate) ==
    IF current_rate # 0
    THEN [num |-> (end_rate - current_rate) * 100 * (IF current_rate < 0 THEN 0 - 1 ELSE 1),
          den |-> Abs(current_rate)]
    ELSE [num |-> 0, den |-> 1]

\* abs(change_percent) >= threshold_percent
ExceedsBuggy(change_percent, threshold_percent) ==
    Abs(change_percent.num) > threshold_percent * change_percent.den

exceeds_threshold(change_percent, threshold_percent) ==
    Abs(change_percent.num) >= threshold_percent * change_percent.den

\* the dedup test of one existing anomaly against the candidate window
SamePeriodBuggy(existing, current_date, end_date) ==
    /\ Abs(existing.start_date - current_date) < DEDUP_DAYS - 1
    /\ Abs(existing.end_date - end_date) < DEDUP_DAYS - 1

SamePeriodOtherDay(existing, current_date, end_date) ==
    /\ Abs(existing.start_date - current_date) < DEDUP_DAYS
    /\ Abs(existing.end_date - end_date) < DEDUP_DAYS
    /\ existing.start_date # current_date

same_period(existing, current_date, end_date) ==
    /\ Abs(existing.start_date - current_date) < DEDUP_DAYS
    /\ Abs(existing.end_date - end_date) < DEDUP_DAYS

duplicate(found, current_date, end_date) ==
    \E k \in 1..Len(found) : same_period(found[k], current_date, end_date)

DirectionFlipped(change_percent) ==
    IF change_percent.num > 0 THEN "appreciation" ELSE "depreciation"

direction_of(change_percent) ==
    IF change_percent.num < 0 THEN "appreciation" ELSE "depreciation"

make_anomaly(current, row) ==
    LET cp == change_percent_of(current.rate, row.rate)
    IN  [start_date    |-> current.date,
         end_date      |-> row.date,
         start_rate    |-> current.rate,
         end_rate      |-> row.rate,
         change_percent |-> cp,
         direction     |-> direction_of(cp),
         magnitude     |-> FracAbs(cp),
         duration_days |-> row.date - current.date]

\* the two nested loops: i over every row, j over the rows of i's window in
\* index order; found is the list `anomalies` built so far
RECURSIVE scan(_, _, _, _, _, _)
scan(fx_sorted, i, j, threshold_percent, window_days, found) ==
    IF i > Len(fx_sorted) THEN found
    ELSE IF j > Len(fx_sorted)
         THEN scan(fx_sorted, i + 1, 1, threshold_percent, window_days, found)
    ELSE LET current == fx_sorted[i]
             row     == fx_sorted[j]
             cp      == change_percent_of(current.rate, row.rate)
             emit    == /\ window_mask(row.date, current.date, window_days)
                        /\ exceeds_threshold(cp, threshold_percent)
                        /\ ~duplicate(found, current.date, row.date)
         IN  scan(fx_sorted, i, j + 1, threshold_percent, window_days,
                  IF emit THEN Append(found, make_anomaly(current, row)) ELSE found)

KeepFoundOrder(s) == s

\* anomalies.sort(key=magnitude, reverse=True): stable, equal keys keep their order
RECURSIVE InsertByMagnitude(_, _)
InsertByMagnitude(a, s) ==
    IF s = <<>> THEN <<a>>
    ELSE IF FracLt(Head(s).magnitude, a.magnitude) THEN <<a>> \o s
    ELSE <<Head(s)>> \o InsertByMagnitude(a, Tail(s))

RECURSIVE sort_by_magnitude(_)
sort_by_magnitude(s) ==
    IF s = <<>> THEN <<>>
    ELSE InsertByMagnitude(s[Len(s)], sort_by_magnitude(SubSeq(s, 1, Len(s) - 1)))

\* the list in the order found, before the final sort
found_anomalies(df, threshold_percent, window_days) ==
    scan(sort_values_date(df), 1, 1, threshold_percent, window_days, <<>>)

DetectOnlyUnreported(df, threshold_percent, window_days) ==
    SelectSeq(sort_by_magnitude(found_anomalies(df, threshold_percent, window_days)),
              LAMBDA a : a \notin Range(anomalies))

detect_steep_movements(df, threshold_percent, window_days) ==
    sort_by_magnitude(found_anomalies(df, threshold_percent, window_days))

-----------------------------------------------------------------------------
(* Specification Spec: one detector, any rate series, any sequence of       *)
(* detect_steep_movements calls                                             *)

NoDetector ==
    /\ fx_data = <<>>
    /\ det_call = [threshold_percent |-> 0, window_days |-> 0]
    /\ anomalies = <<>>
    /\ det_pc = "idle"

NoCorrelation ==
    /\ commodity_data = <<>>
    /\ cor_anomaly = [start_date |-> 0, end_date |-> 0]
    /\ cor_result = [movements |-> <<>>,
                     has_significant_movement |-> FALSE,
                     likely_influence |-> FALSE]
    /\ cor_pc = "idle"

NoEvents == [imf_releases |-> <<>>, policy_rate_changes |-> <<>>, news |-> <<>>]

NoCall ==
    [op |-> "none", country_code |-> "", outcome |-> "none", fetched |-> FALSE,
     cache_fresh |-> FALSE, failed |-> {}]

NoProviderCall ==
    /\ prov_call = NoCall
    /\ grant_result = [has_grant |-> FALSE, grants |-> <<>>]
    /\ ext_events = NoEvents
    /\ lw_result = [has_grant |-> FALSE, has_commodity |-> FALSE, has_news |-> FALSE]
    /\ policy_rates = <<>>

\* no GrantImpactAnalyzer call has been made
NoWindowCall == [called |-> FALSE, grant_date |-> 0, window_weeks |-> 0]
NoMetrics == [trend_direction |-> "none"]
NoWindows ==
    /\ pre_call = NoWindowCall /\ pre_data = <<>> /\ pre_metrics = NoMetrics
    /\ post_call = NoWindowCall /\ post_data = <<>> /\ post_metrics = NoMetrics
NoImpactScore == [scored |-> FALSE]
NoScore ==
    /\ commodity_metrics = [stability |-> "none"]
    /\ trend_status = "none"
    /\ impact_score = NoImpactScore
NoAnalysisCall == [called |-> FALSE, pre_weeks |-> 0, post_weeks |-> 0]
NoGrantCall == [called |-> FALSE, correlation_days |-> 0]
NoCommodityCall == [called |-> FALSE, grant_date |-> 0, window_weeks |-> 0]
NoEtl ==
    /\ imf_files = <<>> /\ wb_files = <<>> /\ std_grants = <<>> /\ etl_pc = "idle"
NoFxCache == [exists |-> FALSE, fresh |-> FALSE, rows |-> <<>>]
NoFxCall == [called |-> FALSE]
NoPrefetchCall == [called |-> FALSE]
NoFx ==
    /\ fx_cache = [c \in {"GHS", "TRY"} |-> NoFxCache]
    /\ comm_cache = [c \in {"Gold", "Cocoa", "Steel", "Textiles"} |-> "absent"]
    /\ fx_call = NoFxCall
    /\ fx_result = <<>>
    /\ prefetch_call = NoPrefetchCall
NoNoteView == [shown |-> FALSE]
NoNotes ==
    /\ selected_currency = "none"
    /\ notes_file = <<>>
    /\ note_view = NoNoteView
    /\ note_saves = {}
NoLoader == NoEtl /\ NoFx /\ NoNotes
NoAnalysis ==
    /\ NoWindows
    /\ NoScore
    /\ analysis_call = NoAnalysisCall
    /\ analysis_results = <<>>
    /\ grant_call = NoGrantCall
    /\ commodity_call = NoCommodityCall
    /\ NoLoader

NoProvider ==
    /\ grants_data = <<>>
    /\ external_fetcher = "None"
    /\ imf_cache = [c \in {"GHS", "XXX"} |-> "absent"]
    /\ news_cache = [exists |-> FALSE, readable |-> FALSE, content |-> <<>>]
    /\ NoProviderCall

Init ==
    /\ fx_data \in RateSeries
    /\ det_call = [threshold_percent |-> 0, window_days |-> 0]
    /\ anomalies = <<>>
    /\ det_pc = "idle"
    /\ NoCorrelation
    /\ NoProvider
    /\ NoAnalysis

Detect ==
    \E t \in Thresholds, w \in WindowDays :
        /\ det_call' = [threshold_percent |-> t, window_days |-> w]
        /\ anomalies' = detect_steep_movements(fx_data, t, w)
        /\ det_pc' = "detected"
        /\ UNCHANGED <<fx_data, corVars, provVars, anVars>>

Next == Detect

Spec == Init /\ [][Next]_vars

-----------------------------------------------------------------------------
(* Properties of detect_steep_movements, stated over the set of points of   *)
(* the series and not over the scan                                         *)

Points == Range(fx_data)

\* |(q.rate - p.rate) / p.rate * 100| >= t, the change taken as 0 when p.rate = 0
SteepPair(p, q, t) ==
    IF p.rate = 0 THEN 0 >= t
    ELSE Abs((q.rate - p.rate) * 100) >= t * Abs(p.rate)

\* the candidate windows of the last call: pairs of points, i before j
Candidates ==
    {c \in Points \X Points :
        /\ c[1].date < c[2].date
        /\ c[2].date <= c[1].date + det_call.window_days
        /\ SteepPair(c[1], c[2], det_call.threshold_percent)}

\* scan order: i ascending, then j ascending
ScanBefore(s1, e1, s2, e2) == s1 < s2 \/ (s1 = s2 /\ e1 < e2)

Emitted(c) ==
    \E k \in 1..Len(anomalies) :
        anomalies[k].start_date = c[1].date /\ anomalies[k].end_date = c[2].date

\* C1 (as claimed): no two returned anomalies have start dates within 7 days
\* of each other (difference <= 7) and end dates within 7 days of each other.
C1_Within7Inclusive ==
    det_pc = "detected" =>
        \A a, b \in 1..Len(anomalies) :
            a # b => ~(/\ Abs(anomalies[a].start_date - anomalies[b].start_date) <= 7
                       /\ Abs(anomalies[a].end_date - anomalies[b].end_date) <= 7)

\* C1 (amended): no two returned anomalies have start dates fewer than 7 days
\* apart (at most 6) and at the same time end dates fewer than 7 days apart.
C1_NoTwoWithinSixDays ==
    det_pc = "detected" =>
        \A a, b \in 1..Len(anomalies) :
            a # b => ~(/\ Abs(anomalies[a].start_date - anomalies[b].start_date) <= 6
                       /\ Abs(anomalies[a].end_date - anomalies[b].end_date) <= 6)

\* the deduplication dropped a candidate and still two anomalies were returned
C1_Witness ==
    /\ det_pc = "detected"
    /\ Len(anomalies) >= 2
    /\ Cardinality(Candidates) > Len(anomalies)

C3_AnomalyWellFormed ==
    det_pc = "detected" =>
        \A k \in 1..Len(anomalies) :
            LET a == anomalies[k] IN
            /\ \E p, q \in Points :
                  /\ p.date = a.start_date /\ p.rate = a.start_rate
                  /\ q.date = a.end_date /\ q.rate = a.end_rate
                  /\ p.date < q.date
                  /\ q.date <= p.date + det_call.window_days
            /\ a.end_date > a.start_date
            /\ a.duration_days = a.end_date - a.start_date
            /\ a.duration_days <= det_call.window_days
            /\ a.start_rate # 0
            /\ a.change_percent.den > 0
            /\ a.change_percent.num * a.start_rate
                  = (a.end_rate - a.start_rate) * 100 * a.change_percent.den
            /\ a.magnitude.den > 0
            /\ a.magnitude.num * a.change_percent.den
                  = Abs(a.change_percent.num) * a.magnitude.den
            /\ a.magnitude.num >= det_call.threshold_percent * a.magnitude.den
            /\ a.direction \in {"appreciation", "depreciation"}
            /\ (a.direction = "appreciation")
                  <=> ((a.end_rate - a.start_rate) * a.start_rate < 0)

\* one call returned a falling and a rising movement
C3_Witness ==
    /\ det_pc = "detected"
    /\ \E k \in 1..Len(anomalies) : anomalies[k].direction = "appreciation"
    /\ \E k \in 1..Len(anomalies) : anomalies[k].direction = "depreciation"


\* C19: the anomalies returned by detect_steep_movements are ordered by
\* magnitude, non-increasing: no entry has a smaller magnitude than the entry
\* after it.
C19_MagnitudeNonIncreasing ==
    det_pc = "detected" =>
        \A k \in 1..(Len(anomalies) - 1) :
            ~FracLt(anomalies[k].magnitude, anomalies[k + 1].magnitude)

\* two or more anomalies that the final sort has reordered
C19_Witness ==
    /\ det_pc = "detected"
    /\ Len(anomalies) >= 2
    /\ FracLt(anomalies[2].magnitude, anomalies[1].magnitude)
    /\ anomalies # found_anomalies(fx_data, det_call.threshold_percent, det_call.window_days)
-----------------------------------------------------------------------------
(* AnomalyDetector.correlate_with_commodities                               *)
(*                                                                         *)
(* A commodity frame is [date_dtype, rows]: date_dtype is "object" while    *)
(* the date column holds datetime.date values (fetch_commodity_prices,      *)
(* load_commodity_from_csv) and "datetime64" once pd.to_datetime has been   *)
(* assigned to it.  The constructor stores the caller's map itself          *)
(* (self.commodity_data = commodity_data), so commodity_data is both the    *)
(* caller's object and the detector's.                                      *)

MaxRows == 2        \* longest commodity series

COMMODITY_CORRELATION_PERCENT == 5

Commodities == {"Gold", "Oil"}
CommodityDays == {0, 1, 2}
Prices == {0, 100, 105}
DateDtypes == {"object", "datetime64"}

CommodityRows ==
    {s \in SeqsUpTo([date : CommodityDays, price : Prices], MaxRows) :
        \A a, b \in 1..Len(s) : a # b => s[a].date # s[b].date}

CommodityFrames == [date_dtype : DateDtypes, rows : CommodityRows]

CommodityMaps == UNION {[names -> CommodityFrames] : names \in SUBSET Commodities}

\* anomaly dicts as detect_steep_movements builds them: end_date > start_date
AnomalyWindows ==
    {a \in [start_date : 0..3, end_date : 0..3] : a.start_date < a.end_date}

\* commodity_df['date'] = pd.to_datetime(commodity_df['date'])
to_datetime_inplace(frame) == [frame EXCEPT !.date_dtype = "datetime64"]

\* commodity_df[commodity_df['date'] <= boundary]
MaskStrictlyBefore(rows, boundary) ==
    SelectSeq(rows, LAMBDA r : r.date < boundary)

mask_upto(rows, boundary) ==
    SelectSeq(rows, LAMBDA r : r.date <= boundary)

\* .tail(1): the last row of the frame, in row order
tail1(rows) == IF rows = <<>> THEN <<>> ELSE <<rows[Len(rows)]>>

start_data_of(frame, anomaly) == tail1(mask_upto(frame.rows, anomaly.start_date))
end_data_of(frame, anomaly) == tail1(mask_upto(frame.rows, anomaly.end_date))

\* the commodities that get an entry in commodity_movements
has_movement(frame, anomaly) ==
    /\ Len(start_data_of(frame, anomaly)) > 0
    /\ Len(end_data_of(frame, anomaly)) > 0
    /\ start_data_of(frame, anomaly)[1].price # 0

MovementSignificantAboveOnly(frame, anomaly) ==
    LET start_price == start_data_of(frame, anomaly)[1].price
        end_price   == end_data_of(frame, anomaly)[1].price
        cp          == change_percent_of(start_price, end_price)
    IN  [change_percent |-> cp,
         significant    |-> Abs(cp.num) > COMMODITY_CORRELATION_PERCENT * cp.den]

movement_of(frame, anomaly) ==
    LET start_price == start_data_of(frame, anomaly)[1].price
        end_price   == end_data_of(frame, anomaly)[1].price
        cp          == change_percent_of(start_price, end_price)
    IN  [change_percent |-> cp,
         significant    |-> Abs(cp.num) >= COMMODITY_CORRELATION_PERCENT * cp.den]

correlate_with_commodities(cmap, anomaly) ==
    LET moved     == {n \in DOMAIN cmap : has_movement(cmap[n], anomaly)}
        movements == [n \in moved |-> movement_of(cmap[n], anomaly)]
        significant_movements == {n \in moved : movements[n].significant}
    IN  [movements                |-> movements,
         has_significant_movement |-> significant_movements # {},
         likely_influence         |-> significant_movements # {}]

-----------------------------------------------------------------------------
(* Specification SpecCorrelate: a detector built over any commodity map,    *)
(* any sequence of correlate_with_commodities calls                         *)

InitCorrelate ==
    /\ NoDetector
    /\ NoProvider
    /\ NoAnalysis
    /\ commodity_data \in CommodityMaps
    /\ cor_anomaly = [start_date |-> 0, end_date |-> 0]
    /\ cor_result = [movements |-> <<>>,
                     has_significant_movement |-> FALSE,
                     likely_influence |-> FALSE]
    /\ cor_pc = "idle"

CorrelateCommodities ==
    \E anomaly \in AnomalyWindows :
        /\ cor_anomaly' = anomaly
        /\ commodity_data' =
              [n \in DOMAIN commodity_data |-> to_datetime_inplace(commodity_data[n])]
        /\ cor_result' =
              correlate_with_commodities(commodity_data', anomaly)
        /\ cor_pc' = "correlated"
        /\ UNCHANGED <<detVars, provVars, anVars>>

NextCorrelate == CorrelateCommodities

SpecCorrelate == InitCorrelate /\ [][NextCorrelate]_vars

-----------------------------------------------------------------------------
(* Properties of correlate_with_commodities                                 *)

\* the rows of a frame dated at or before a boundary
RowsUpTo(frame, boundary) == {r \in Range(frame.rows) : r.date <= boundary}

\* the latest-dated of them
LatestUpTo(frame, boundary) ==
    CHOOSE r \in RowsUpTo(frame, boundary) :
        \A o \in RowsUpTo(frame, boundary) : o.date <= r.date

\* the last of them in row order
LastRowUpTo(frame, boundary) ==
    LET ks == {k \in 1..Len(frame.rows) : frame.rows[k].date <= boundary}
    IN  frame.rows[CHOOSE k \in ks : \A o \in ks : o <= k]

\* C4: no operation of the engines modifies the caller's rate series, grants
\* table or any series of the commodity map.
C4_CallerDataUnchanged ==
    [][commodity_data' = commodity_data]_vars

\* C7: for every commodity series, in whatever row order, the reported change
\* is from the price of the latest-dated point at or before start_date to the
\* price of the latest-dated point at or before end_date.
C7_LatestDatedLookup ==
    cor_pc = "correlated" =>
        \A n \in DOMAIN cor_result.movements :
            LET start_price == LatestUpTo(commodity_data[n], cor_anomaly.start_date).price
                end_price   == LatestUpTo(commodity_data[n], cor_anomaly.end_date).price
                cp          == cor_result.movements[n].change_percent
            IN  cp.num * start_price = (end_price - start_price) * 100 * cp.den

\* C8 (as claimed): a commodity is omitted exactly when it has no price dated
\* at or before a boundary; a series whose only point is dated before both
\* boundaries is reported with change 0.
C8_OmittedOnlyWithoutPrice ==
    cor_pc = "correlated" =>
        \A n \in DOMAIN commodity_data :
            /\ (n \notin DOMAIN cor_result.movements)
                  <=> \/ RowsUpTo(commodity_data[n], cor_anomaly.start_date) = {}
                      \/ RowsUpTo(commodity_data[n], cor_anomaly.end_date) = {}
            /\ (/\ Len(commodity_data[n].rows) = 1
                /\ commodity_data[n].rows[1].date < cor_anomaly.start_date)
               => /\ n \in DOMAIN cor_result.movements
                  /\ cor_result.movements[n].change_percent.num = 0

\* C8 (amended): a commodity is omitted exactly when it has no price dated at
\* or before start_date, or the start price used (the last row, in row order,
\* dated at or before start_date) is 0; a series whose only point is dated
\* before both boundaries and priced above 0 is reported with change 0.
C8_OmittedWithoutPriceOrZeroStart ==
    cor_pc = "correlated" =>
        \A n \in DOMAIN commodity_data :
            /\ (n \notin DOMAIN cor_result.movements)
                  <=> \/ RowsUpTo(commodity_data[n], cor_anomaly.start_date) = {}
                      \/ LastRowUpTo(commodity_data[n], cor_anomaly.start_date).price = 0
            /\ (/\ Len(commodity_data[n].rows) = 1
                /\ commodity_data[n].rows[1].date < cor_anomaly.start_date
                /\ commodity_data[n].rows[1].price # 0)
               => /\ n \in DOMAIN cor_result.movements
                  /\ cor_result.movements[n].change_percent.num = 0

\* one commodity is omitted for its zero start price, another has a single
\* earlier point and is reported
C8_Witness ==
    /\ cor_pc = "correlated"
    /\ \E n \in DOMAIN commodity_data :
          /\ RowsUpTo(commodity_data[n], cor_anomaly.start_date) # {}
          /\ n \notin DOMAIN cor_result.movements
    /\ \E n \in DOMAIN cor_result.movements :
          /\ Len(commodity_data[n].rows) = 1
          /\ commodity_data[n].rows[1].date < cor_anomaly.start_date

\* C21: in the result of correlate_with_commodities, has_significant_movement
\* and likely_influence have the same value, true exactly when at least one
\* commodity of movements has |change_percent| >= COMMODITY_CORRELATION_PERCENT.
C21_FlagsAgreeWithMovements ==
    cor_pc = "correlated" =>
        /\ cor_result.has_significant_movement = cor_result.likely_influence
        /\ cor_result.has_significant_movement
              <=> \E n \in DOMAIN cor_result.movements :
                     LET cp == cor_result.movements[n].change_percent
                     IN  Abs(cp.num) >= COMMODITY_CORRELATION_PERCENT * cp.den

\* one commodity moved by exactly 5 percent, the other did not move
C21_Witness ==
    /\ cor_pc = "correlated"
    /\ cor_result.has_significant_movement
    /\ \E n, o \in DOMAIN cor_result.movements :
          /\ Abs(cor_result.movements[n].change_percent.num)
                = COMMODITY_CORRELATION_PERCENT * cor_result.movements[n].change_percent.den
          /\ cor_result.movements[o].change_percent.num = 0

-----------------------------------------------------------------------------
(* AnomalyDetector.correlate_with_grants                                    *)

GRANT_CORRELATION_DAYS == 7
DEFAULT_CORRELATION_DAYS == 7

\* grant['disbursement_date'].strftime('%Y-%m-%d')
strftime_ymd(date) == ToString(date)

\* persistence.py: f"{start.strftime('%Y-%m-%d')}_{end.strftime('%Y-%m-%d')}"
generate_anomaly_id(anomaly) ==
    strftime_ymd(anomaly.start_date) \o "_" \o strftime_ymd(anomaly.end_date)

InSearchWindowStrict(grant, anomaly, correlation_days) ==
    /\ grant.disbursement_date > anomaly.start_date - correlation_days
    /\ grant.disbursement_date < anomaly.end_date + correlation_days

in_search_window(grant, anomaly, correlation_days) ==
    /\ grant.disbursement_date >= anomaly.start_date - correlation_days
    /\ grant.disbursement_date <= anomaly.end_date + correlation_days

grant_entry(grant) ==
    [date    |-> strftime_ymd(grant.disbursement_date),
     amount  |-> grant.amount_usd,
     source  |-> grant.source,
     program |-> grant.program_name]

RECURSIVE grants_list_of(_)
grants_list_of(nearby_grants) ==
    IF nearby_grants = <<>> THEN <<>>
    ELSE <<grant_entry(Head(nearby_grants))>> \o grants_list_of(Tail(nearby_grants))

correlate_with_grants(grants, anomaly, correlation_days) ==
    LET nearby_grants ==
            SelectSeq(grants, LAMBDA g : in_search_window(g, anomaly, correlation_days))
        grants_list == grants_list_of(nearby_grants)
    IN  [has_grant |-> Len(grants_list) > 0, grants |-> grants_list]

-----------------------------------------------------------------------------
(* ExternalDataFetcher: the three channels and their cache files            *)

MaxNews == 1        \* most articles the news sources yield for one query

NEWS_MAX_RESULTS == 20

CountryCodes == {"GHS", "XXX"}
Channels == {"imf_releases", "policy_rates", "news"}

\* what happens to a cache file that the code opens with 'w' and dumps into:
\* written, or left truncated (the dump failed after the open)
WriteOutcomes == {"ok", "truncated"}

\* PILOT_CURRENCIES.get(country_code, {}).get('country', '')
country_name_of(country_code) == IF country_code = "GHS" THEN "Ghana" ELSE ""

\* the loop over PILOT_CURRENCIES in get_news_headlines
country_code_of(country_name) == IF country_name = "Ghana" THEN "GHS" ELSE "None"

NewsLists == {[k \in 1..n |-> k] : n \in 0..MaxNews}

\* list[:n]
Take(list, n) == SubSeq(list, 1, IF Len(list) < n THEN Len(list) ELSE n)

NewsCaches ==
    {[exists |-> FALSE, readable |-> FALSE, content |-> <<>>],
     [exists |-> TRUE, readable |-> FALSE, content |-> <<>>]}
    \cup {[exists |-> TRUE, readable |-> TRUE, content |-> c] : c \in NewsLists}

\* with open(cache_file, 'w') as f: json.dump(releases, f), inside try
imf_cache_after(cache, write) == IF write = "ok" THEN "valid" ELSE "corrupt"

\* the cache read of get_imf_press_releases is outside the try block: a file
\* json.load cannot parse raises; a valid file holds the empty list this
\* method writes, so nothing is in range and the fetch step follows
get_imf_press_releases(cache, write) ==
    IF cache = "corrupt"
    THEN [outcome |-> "raised", releases |-> <<>>, cache |-> cache]
    ELSE [outcome |-> "ok", releases |-> <<>>, cache |-> imf_cache_after(cache, write)]

\* a country code without a FRED series gives an empty frame, and so does
\* every failure inside get_policy_rates, which is caught
get_policy_rates(country_code, fred) ==
    IF country_code # "GHS" \/ fred.failed THEN <<>> ELSE fred.series

news_cache_after(cache, scored_articles, write) ==
    CASE scored_articles = <<>> -> cache
      [] write = "ok" -> [exists |-> TRUE, readable |-> TRUE, content |-> scored_articles]
      [] OTHER -> [exists |-> TRUE, readable |-> FALSE, content |-> <<>>]

\* the sources swallow their own failures and yield no articles
scored_articles_of(sources) == IF sources.failed THEN <<>> ELSE sources.articles

NewsIgnoringCacheOnly(country_name, cache, cache_fresh, check_cache_only, sources, write) ==
    IF country_code_of(country_name) = "None"
    THEN [news |-> <<>>, fetched |-> FALSE, cache |-> cache]
    ELSE IF cache.exists /\ cache_fresh /\ cache.readable
    THEN [news |-> Take(cache.content, NEWS_MAX_RESULTS), fetched |-> FALSE, cache |-> cache]
    ELSE [news    |-> Take(scored_articles_of(sources), NEWS_MAX_RESULTS),
          fetched |-> TRUE,
          cache   |-> news_cache_after(cache, scored_articles_of(sources), write)]

get_news_headlines(country_name, cache, cache_fresh, check_cache_only, sources, write) ==
    IF country_code_of(country_name) = "None"
    THEN [news |-> <<>>, fetched |-> FALSE, cache |-> cache]
    ELSE IF cache.exists /\ cache_fresh /\ cache.readable
    THEN [news |-> Take(cache.content, NEWS_MAX_RESULTS), fetched |-> FALSE, cache |-> cache]
    ELSE IF check_cache_only
    THEN [news |-> <<>>, fetched |-> FALSE, cache |-> cache]
    ELSE [news    |-> Take(scored_articles_of(sources), NEWS_MAX_RESULTS),
          fetched |-> TRUE,
          cache   |-> news_cache_after(cache, scored_articles_of(sources), write)]

\* what one call meets outside the program: the answers of FRED and of the
\* news sources, the age of the news cache file, the fate of the cache writes
SamplePolicySeries == {<<>>, <<[rate |-> 5], [rate |-> 5], [rate |-> 6]>>}

Environments ==
    [fred        : {[failed |-> TRUE, series |-> <<>>]}
                   \cup {[failed |-> FALSE, series |-> p] : p \in SamplePolicySeries},
     sources     : {[failed |-> TRUE, articles |-> <<>>]}
                   \cup {[failed |-> FALSE, articles |-> a] : a \in NewsLists},
     cache_fresh : BOOLEAN,
     imf_write   : WriteOutcomes,
     news_write  : WriteOutcomes]

\* a detector without a provider meets nothing outside the program
NoEnvironment ==
    [fred |-> [failed |-> TRUE, series |-> <<>>],
     sources |-> [failed |-> TRUE, articles |-> <<>>],
     cache_fresh |-> FALSE, imf_write |-> "ok", news_write |-> "ok"]

EnvironmentsOf(fetcher) ==
    IF fetcher = "None" THEN {NoEnvironment} ELSE Environments

\* check_correlations_lightweight never calls FRED or the press-release scraper
LightweightEnvironmentsOf(fetcher) ==
    {env \in EnvironmentsOf(fetcher) : env.fred.failed /\ env.imf_write = "ok"}

\* the dict literal is evaluated in order: press releases, policy rates, news
get_all_correlation_data(country_code, icache, ncache, env) ==
    LET country_name == country_name_of(country_code)
        imf  == get_imf_press_releases(icache, env.imf_write)
        news == get_news_headlines(country_name, ncache, env.cache_fresh, FALSE,
                                   env.sources, env.news_write)
    IN  IF imf.outcome = "raised"
        THEN [outcome |-> "raised", imf_releases |-> <<>>, policy_rates |-> <<>>,
              news |-> <<>>, fetched |-> FALSE, imf_cache |-> imf.cache,
              news_cache |-> ncache]
        ELSE [outcome |-> "ok", imf_releases |-> imf.releases,
              policy_rates |-> get_policy_rates(country_code, env.fred),
              news |-> news.news, fetched |-> news.fetched,
              imf_cache |-> imf.cache, news_cache |-> news.cache]

\* the loop over range(1, len(rates_df)), from row `from` on
RECURSIVE policy_changes_from(_, _)
policy_changes_from(rates_df, from) ==
    IF from > Len(rates_df) THEN <<>>
    ELSE LET prev_rate == rates_df[from - 1].rate
             curr_rate == rates_df[from].rate
         IN  (IF prev_rate # curr_rate
              THEN <<[date |-> strftime_ymd(from), previous_rate |-> prev_rate,
                      new_rate |-> curr_rate, change |-> curr_rate - prev_rate]>>
              ELSE <<>>)
             \o policy_changes_from(rates_df, from + 1)

PolicyChangesSkippingFirstPair(rates_df) ==
    IF rates_df # <<>> /\ Len(rates_df) > 1 THEN policy_changes_from(rates_df, 3) ELSE <<>>

\* a policy-rate row is dated by its position in the series
policy_changes_of(rates_df) ==
    IF rates_df # <<>> /\ Len(rates_df) > 1 THEN policy_changes_from(rates_df, 2) ELSE <<>>

\* get_external_events past its guard: it has no try block, so what
\* get_all_correlation_data raises reaches the caller
events_from_provider(country_code, icache, ncache, env) ==
    LET external_data == get_all_correlation_data(country_code, icache, ncache, env)
    IN  IF external_data.outcome = "raised"
        THEN [outcome |-> "raised", events |-> NoEvents, fetched |-> FALSE,
              policy_rates |-> <<>>,
              imf_cache |-> external_data.imf_cache,
              news_cache |-> external_data.news_cache]
        ELSE [outcome |-> "returned",
              events |-> [imf_releases |-> external_data.imf_releases,
                          policy_rate_changes |->
                              policy_changes_of(external_data.policy_rates),
                          news |-> external_data.news],
              fetched |-> external_data.fetched,
              policy_rates |-> external_data.policy_rates,
              imf_cache |-> external_data.imf_cache,
              news_cache |-> external_data.news_cache]

EventsWithoutFetcherGuard(fetcher, country_code, icache, ncache, env) ==
    IF fetcher = "None"
    THEN [outcome |-> "raised", events |-> NoEvents, fetched |-> FALSE,
          policy_rates |-> <<>>, imf_cache |-> icache, news_cache |-> ncache]
    ELSE events_from_provider(country_code, icache, ncache, env)

get_external_events(fetcher, country_code, icache, ncache, env) ==
    IF fetcher = "None"
    THEN [outcome |-> "returned", events |-> NoEvents, fetched |-> FALSE,
          policy_rates |-> <<>>, imf_cache |-> icache, news_cache |-> ncache]
    ELSE events_from_provider(country_code, icache, ncache, env)

\* the channels whose fetch failed during a call: the press-release cache
\* could not be read or written, FRED failed, the news sources failed when
\* they were asked
failed_channels(fetcher, icache, env, r) ==
    IF fetcher = "None" THEN {}
    ELSE (IF icache = "corrupt" \/ env.imf_write # "ok" THEN {"imf_releases"} ELSE {})
         \cup (IF icache # "corrupt" /\ env.fred.failed THEN {"policy_rates"} ELSE {})
         \cup (IF r.fetched /\ env.sources.failed THEN {"news"} ELSE {})

-----------------------------------------------------------------------------
(* Specification SpecProvider: a detector with or without a provider, any   *)
(* state of the cache files, any sequence of get_external_events,           *)
(* investigate_anomaly and check_correlations_lightweight calls for one     *)
(* anomaly                                                                  *)

ProvAnomaly == [start_date |-> 1, end_date |-> 2]

Grant(date, source) ==
    [disbursement_date |-> date, amount_usd |-> 1000, source |-> source,
     program_name |-> "ECF"]

SampleGrantTables ==
    {<<>>,
     <<Grant(10, "World Bank"), Grant(0 - 6, "IMF")>>}

SampleCommodityMaps ==
    {<<>>,
     [n \in {"Gold"} |->
        [date_dtype |-> "object",
         rows |-> <<[date |-> 0, price |-> 100], [date |-> 2, price |-> 105]>>]]}

InitProvider ==
    /\ NoDetector
    /\ commodity_data \in SampleCommodityMaps
    /\ cor_anomaly = [start_date |-> 0, end_date |-> 0]
    /\ cor_result = [movements |-> <<>>,
                     has_significant_movement |-> FALSE,
                     likely_influence |-> FALSE]
    /\ cor_pc = "idle"
    /\ grants_data \in SampleGrantTables
    /\ external_fetcher \in {"None", "ExternalDataFetcher"}
    /\ imf_cache \in [CountryCodes -> {"absent", "valid"}]
    /\ news_cache \in NewsCaches
    /\ NoProviderCall
    /\ NoAnalysis

\* the part of a call that correlate_with_commodities performs on the shared map
CommodityStep(anomaly) ==
    /\ cor_anomaly' = anomaly
    /\ commodity_data' =
          [n \in DOMAIN commodity_data |-> to_datetime_inplace(commodity_data[n])]
    /\ cor_result' = correlate_with_commodities(commodity_data', anomaly)
    /\ cor_pc' = "correlated"

GetExternalEventsIn(envs) ==
    \E country_code \in CountryCodes, env \in envs :
        LET r == get_external_events(external_fetcher, country_code,
                                     imf_cache[country_code], news_cache, env)
        IN  /\ prov_call' =
                  [op |-> "get_external_events", country_code |-> country_code,
                   outcome |-> r.outcome, fetched |-> r.fetched,
                   cache_fresh |-> FALSE,
                   failed |-> failed_channels(external_fetcher, imf_cache[country_code],
                                              env, r)]
            /\ ext_events' = IF r.outcome = "returned" THEN r.events ELSE ext_events
            /\ policy_rates' = r.policy_rates
            /\ imf_cache' = [imf_cache EXCEPT ![country_code] = r.imf_cache]
            /\ news_cache' = r.news_cache
            /\ UNCHANGED <<anVars, detVars, corVars, grants_data, external_fetcher,
                           grant_result, lw_result>>

GetExternalEvents == GetExternalEventsIn(EnvironmentsOf(external_fetcher))

InvestigateAnomalyOf(anomaly) ==
    \E country_code \in CountryCodes, env \in EnvironmentsOf(external_fetcher) :
        LET r == get_external_events(external_fetcher, country_code,
                                     imf_cache[country_code], news_cache, env)
        IN  /\ grant_result' =
                  correlate_with_grants(grants_data, anomaly, DEFAULT_CORRELATION_DAYS)
            /\ CommodityStep(anomaly)
            /\ prov_call' =
                  [op |-> "investigate_anomaly", country_code |-> country_code,
                   outcome |-> r.outcome, fetched |-> r.fetched,
                   cache_fresh |-> FALSE,
                   failed |-> failed_channels(external_fetcher, imf_cache[country_code],
                                              env, r)]
            /\ ext_events' = IF r.outcome = "returned" THEN r.events ELSE ext_events
            /\ policy_rates' = r.policy_rates
            /\ imf_cache' = [imf_cache EXCEPT ![country_code] = r.imf_cache]
            /\ news_cache' = r.news_cache
            /\ UNCHANGED <<anVars, detVars, grants_data, external_fetcher, lw_result>>

InvestigateAnomaly == InvestigateAnomalyOf(ProvAnomaly)

CheckCorrelationsLightweight ==
    \E country_code \in CountryCodes, env \in LightweightEnvironmentsOf(external_fetcher) :
        LET grant_check ==
                correlate_with_grants(grants_data, ProvAnomaly, GRANT_CORRELATION_DAYS)
            r == IF external_fetcher = "None"
                 THEN [news |-> <<>>, fetched |-> FALSE, cache |-> news_cache]
                 ELSE get_news_headlines(country_name_of(country_code), news_cache,
                                         env.cache_fresh, TRUE, env.sources,
                                         env.news_write)
        IN  /\ grant_result' = grant_check
            /\ CommodityStep(ProvAnomaly)
            /\ lw_result' = [has_grant     |-> grant_check.has_grant,
                             has_commodity |-> cor_result'.has_significant_movement,
                             has_news      |-> Len(r.news) > 0]
            /\ prov_call' =
                  [op |-> "check_correlations_lightweight",
                   country_code |-> country_code, outcome |-> "returned",
                   fetched |-> r.fetched, cache_fresh |-> env.cache_fresh,
                   failed |-> {}]
            /\ news_cache' = r.cache
            /\ UNCHANGED <<anVars, detVars, grants_data, external_fetcher, imf_cache,
                           ext_events, policy_rates>>

NextProvider ==
    \/ GetExternalEvents
    \/ InvestigateAnomaly
    \/ CheckCorrelationsLightweight

SpecProvider == InitProvider /\ [][NextProvider]_vars

-----------------------------------------------------------------------------
(* Properties of the calls that may use the provider                        *)

\* C5: when the provider fails while fetching press releases, policy rates
\* or news, get_external_events and investigate_anomaly return an empty
\* result for that channel and never propagate the exception.
C5_ProviderFailureGivesEmpty ==
    prov_call.op \in {"get_external_events", "investigate_anomaly"} =>
        /\ prov_call.outcome = "returned"
        /\ "imf_releases" \in prov_call.failed => ext_events.imf_releases = <<>>
        /\ "policy_rates" \in prov_call.failed => ext_events.policy_rate_changes = <<>>
        /\ "news" \in prov_call.failed => ext_events.news = <<>>

\* C6: check_correlations_lightweight reaches no fetch step; has_news is true
\* exactly when a provider is configured and a fresh, readable, non-empty
\* cached answer exists for a pilot country; has_grant and has_commodity come
\* from the grants table and the commodity map alone.
C6_LightweightNeverFetches ==
    prov_call.op = "check_correlations_lightweight" =>
        /\ ~prov_call.fetched
        /\ prov_call.outcome = "returned"
        /\ lw_result.has_news
              <=> /\ external_fetcher # "None"
                  /\ prov_call.country_code = "GHS"
                  /\ news_cache.exists /\ news_cache.readable
                  /\ prov_call.cache_fresh
                  /\ news_cache.content # <<>>
        /\ lw_result.has_grant
              <=> \E k \in 1..Len(grants_data) :
                     /\ grants_data[k].disbursement_date >= ProvAnomaly.start_date - 7
                     /\ grants_data[k].disbursement_date <= ProvAnomaly.end_date + 7
        /\ lw_result.has_commodity
              <=> \E n \in DOMAIN cor_result.movements :
                     cor_result.movements[n].significant

\* a provider is configured, the country is a pilot country, and no usable
\* cached answer exists: the full lookup would fetch here
C6_Witness ==
    /\ prov_call.op = "check_correlations_lightweight"
    /\ external_fetcher # "None"
    /\ prov_call.country_code = "GHS"
    /\ ~(news_cache.exists /\ news_cache.readable /\ prov_call.cache_fresh)
    /\ ~lw_result.has_news

\* C14: without a provider, get_external_events returns empty lists for the
\* three channels for any country code; with an empty grants table and an
\* empty commodity map as well, investigate_anomaly returns has_grant false,
\* no grants, no movements and both commodity flags false, and nothing raises.
C14_NoProviderGivesEmpty ==
    (prov_call.op \in {"get_external_events", "investigate_anomaly"}
        /\ external_fetcher = "None") =>
        /\ prov_call.outcome = "returned"
        /\ ~prov_call.fetched
        /\ ext_events = [imf_releases |-> <<>>, policy_rate_changes |-> <<>>, news |-> <<>>]
        /\ (prov_call.op = "investigate_anomaly" /\ grants_data = <<>>
                /\ commodity_data = <<>>) =>
              /\ grant_result = [has_grant |-> FALSE, grants |-> <<>>]
              /\ cor_result = [movements |-> <<>>, has_significant_movement |-> FALSE,
                               likely_influence |-> FALSE]

\* an investigation with no provider, no grants and no commodities
C14_Witness ==
    /\ prov_call.op = "investigate_anomaly"
    /\ external_fetcher = "None"
    /\ grants_data = <<>>
    /\ commodity_data = <<>>
    /\ ext_events.news = <<>>

-----------------------------------------------------------------------------
(* GrantImpactAnalyzer.calculate_pre_trend / calculate_post_impact          *)
(*                                                                          *)
(* Rates and every figure derived from them are exact fractions; the        *)
(* rounding of floating point at the slope threshold itself is not          *)
(* represented.  volatility holds the sample variance, whose square root    *)
(* is the figure the program returns.                                       *)

RECURSIVE Gcd(_, _)
Gcd(a, b) == IF b = 0 THEN a ELSE Gcd(b, a % b)

Frac(n, d) ==
    LET g == Gcd(Abs(n), d) IN [num |-> n \div g, den |-> d \div g]
FracZero == [num |-> 0, den |-> 1]
FracAdd(a, b) ==
    LET l == (a.den \div Gcd(a.den, b.den)) * b.den
    IN  Frac(a.num * (l \div a.den) + b.num * (l \div b.den), l)
FracNeg(a) == [num |-> 0 - a.num, den |-> a.den]
FracSub(a, b) == FracAdd(a, FracNeg(b))
FracMul(a, b) ==
    LET x == Frac(a.num, b.den)
        y == Frac(b.num, a.den)
    IN  [num |-> x.num * y.num, den |-> x.den * y.den]
FracInt(k) == [num |-> k, den |-> 1]
\* a / b for b # 0
FracDiv(a, b) ==
    IF b.num > 0 THEN FracMul(a, [num |-> b.den, den |-> b.num])
    ELSE FracMul(a, [num |-> 0 - b.den, den |-> 0 - b.num])

\* dates on which the analyzer's series may have a point, grant dates and
\* window lengths: every window boundary falls on one of the dates
AnalyzerDays == {0, 1, 7, 8, 9, 15}
AnalyzerRates == {Frac(200, 200), Frac(201, 200), Frac(210, 200)}
GrantDates == {7, 8}
WindowWeeks == {1, 2}

\* rate series the caller can hand to the analyzer: dates unique, rows oldest
\* first or newest first; the analyzer keeps the rows in the order given
AnalyzerSeries ==
    {s \in SeqsUpTo([date : AnalyzerDays, rate : AnalyzerRates], MaxLen) :
        \/ \A a, b \in 1..Len(s) : a < b => s[a].date < s[b].date
        \/ \A a, b \in 1..Len(s) : a < b => s[a].date > s[b].date}

\* timedelta(weeks=window_weeks), in days
timedelta_weeks(window_weeks) == 7 * window_weeks

PreMaskInclusive(date, grant_date, window_weeks) ==
    date >= grant_date - timedelta_weeks(window_weeks) /\ date <= grant_date

\* (fx_data['date'] >= start_date) & (fx_data['date'] < grant_date)
pre_mask(date, grant_date, window_weeks) ==
    date >= grant_date - timedelta_weeks(window_weeks) /\ date < grant_date

\* (fx_data['date'] > grant_date) & (fx_data['date'] <= end_date)
post_mask(date, grant_date, window_weeks) ==
    date > grant_date /\ date <= grant_date + timedelta_weeks(window_weeks)

\* fx_data[mask].copy(): the selected rows, in the order they have in fx_data
pre_data_of(fx, grant_date, window_weeks) ==
    LET Test(row) == pre_mask(row.date, grant_date, window_weeks)
    IN  SelectSeq(fx, Test)
post_data_of(fx, grant_date, window_weeks) ==
    LET Test(row) == post_mask(row.date, grant_date, window_weeks)
    IN  SelectSeq(fx, Test)

\* sum of f[k] over k in lo..hi
RECURSIVE FracSum(_, _, _)
FracSum(f, lo, hi) ==
    IF lo > hi THEN FracZero ELSE FracAdd(f[lo], FracSum(f, lo + 1, hi))

\* pre_data['rate'].values
rates_of(data) == [k \in 1..Len(data) |-> data[k].rate]

\* Series.mean()
mean(y) == FracDiv(FracSum(y, 1, Len(y)), FracInt(Len(y)))

\* the square of Series.std(): the sample variance (ddof = 1)
variance(y) ==
    LET m == mean(y)
        sq == [k \in 1..Len(y) |-> FracMul(FracSub(y[k], m), FracSub(y[k], m))]
    IN  FracDiv(FracSum(sq, 1, Len(y)), FracInt(Len(y) - 1))

\* np.polyfit(np.arange(len(y)), y, 1)[0]: the least-squares slope of y
\* against the index 0 .. len(y)-1
polyfit_slope(y) ==
    LET n   == Len(y)
        x   == [k \in 1..n |-> FracInt(k - 1)]
        Sx  == FracSum(x, 1, n)
        Sxx == FracSum([k \in 1..n |-> FracMul(x[k], x[k])], 1, n)
        Sy  == FracSum(y, 1, n)
        Sxy == FracSum([k \in 1..n |-> FracMul(x[k], y[k])], 1, n)
    IN  FracDiv(FracSub(FracMul(FracInt(n), Sxy), FracMul(Sx, Sy)),
                FracSub(FracMul(FracInt(n), Sxx), FracMul(Sx, Sx)))

\* the slope beyond which a window trends up (or, negated, down)
SLOPE_THRESHOLD == [num |-> 1, den |-> 100]

trend_direction_of(slope) ==
    IF FracLt(SLOPE_THRESHOLD, slope) THEN "up"
    ELSE IF FracLt(slope, FracNeg(SLOPE_THRESHOLD)) THEN "down"
    ELSE "stable"

\* ((last_rate - first_rate) / first_rate) * 100 if first_rate != 0 else 0
window_change_percent(data) ==
    LET first_rate == data[1].rate
        last_rate == data[Len(data)].rate
    IN  IF first_rate.num # 0
        THEN FracMul(FracDiv(FracSub(last_rate, first_rate), first_rate), FracInt(100))
        ELSE FracZero

\* the std of a single value: not a number
FracNaN == [num |-> 0, den |-> 0]

DegradedBelowOne(data) == Len(data) < 1

\* len(pre_data) < 2
too_few_points(data) == Len(data) < 2

\* the result for a window with too few points: no slope key
degraded_metrics ==
    [avg_rate |-> FracZero, trend_direction |-> "unknown",
     volatility |-> FracZero, change_percent |-> FracZero]

\* the metrics both operations compute from the rows of their window
window_metrics(data) ==
    IF too_few_points(data) THEN degraded_metrics
    ELSE LET y == rates_of(data)
             has_fit == Len(data) > 1
             slope == IF has_fit THEN polyfit_slope(y) ELSE FracZero
         IN  [avg_rate |-> mean(y),
              trend_direction |-> IF has_fit THEN trend_direction_of(slope) ELSE "stable",
              volatility |-> IF has_fit THEN variance(y) ELSE FracNaN,
              change_percent |-> window_change_percent(data),
              slope |-> slope]

calculate_pre_trend(fx, grant_date, window_weeks) ==
    window_metrics(pre_data_of(fx, grant_date, window_weeks))

calculate_post_impact(fx, grant_date, window_weeks) ==
    window_metrics(post_data_of(fx, grant_date, window_weeks))

-----------------------------------------------------------------------------
(* Specification SpecGrant: one analyzer over any rate series, any sequence *)
(* of calculate_pre_trend and calculate_post_impact calls                   *)

InitGrant ==
    /\ fx_data \in AnalyzerSeries
    /\ det_call = [threshold_percent |-> 0, window_days |-> 0]
    /\ anomalies = <<>>
    /\ det_pc = "idle"
    /\ NoCorrelation
    /\ NoProvider
    /\ NoAnalysis

CalculatePreTrend ==
    \E g \in GrantDates, w \in WindowWeeks :
        /\ pre_call' = [called |-> TRUE, grant_date |-> g, window_weeks |-> w]
        /\ pre_data' = pre_data_of(fx_data, g, w)
        /\ pre_metrics' = calculate_pre_trend(fx_data, g, w)
        /\ UNCHANGED <<detVars, corVars, provVars, post_call, post_data, post_metrics,
                       scoreVars, analysisVars, grant_call, commodity_call,
                       loaderVars>>

CalculatePostImpact ==
    \E g \in GrantDates, w \in WindowWeeks :
        /\ post_call' = [called |-> TRUE, grant_date |-> g, window_weeks |-> w]
        /\ post_data' = post_data_of(fx_data, g, w)
        /\ post_metrics' = calculate_post_impact(fx_data, g, w)
        /\ UNCHANGED <<detVars, corVars, provVars, pre_call, pre_data, pre_metrics,
                       scoreVars, analysisVars, grant_call, commodity_call,
                       loaderVars>>

NextGrant == CalculatePreTrend \/ CalculatePostImpact

SpecGrant == InitGrant /\ [][NextGrant]_vars

-----------------------------------------------------------------------------
(* Properties of the pre and post windows                                   *)

\* indices of the analyzer's rows dated from lo to hi, both included
RowsDated(lo, hi) == {k \in 1..Len(fx_data) : lo <= fx_data[k].date /\ fx_data[k].date <= hi}

\* data holds exactly the rows of fx_data with the indices in idx, each once
HoldsExactly(data, idx) ==
    /\ Range(data) = {fx_data[k] : k \in idx}
    /\ Len(data) = Cardinality(idx)

\* C9: calculate_pre_trend uses exactly the points dated in
\* [grant_date - window_weeks, grant_date), calculate_post_impact exactly those
\* in (grant_date, grant_date + window_weeks]; a point dated grant_date is in
\* neither window, the far boundary of each is included, and no point is in both.
C9_WindowsHalfOpen ==
    /\ pre_call.called =>
          /\ HoldsExactly(pre_data, RowsDated(pre_call.grant_date - 7 * pre_call.window_weeks,
                                              pre_call.grant_date - 1))
          /\ \A k \in 1..Len(pre_data) : pre_data[k].date # pre_call.grant_date
          /\ pre_metrics = window_metrics(pre_data)
    /\ post_call.called =>
          /\ HoldsExactly(post_data, RowsDated(post_call.grant_date + 1,
                                               post_call.grant_date + 7 * post_call.window_weeks))
          /\ \A k \in 1..Len(post_data) : post_data[k].date # post_call.grant_date
          /\ post_metrics = window_metrics(post_data)
    /\ (pre_call.called /\ post_call.called /\ pre_call.grant_date = post_call.grant_date)
          => Range(pre_data) \cap Range(post_data) = {}

\* both windows of one grant, over a series with a point on the grant date and
\* a point on the far boundary of each window
C9_Witness ==
    /\ pre_call.called /\ post_call.called
    /\ pre_call.grant_date = post_call.grant_date
    /\ pre_call.window_weeks = post_call.window_weeks
    /\ \E k \in 1..Len(fx_data) : fx_data[k].date = pre_call.grant_date
    /\ \E k \in 1..Len(pre_data) :
          pre_data[k].date = pre_call.grant_date - 7 * pre_call.window_weeks
    /\ \E k \in 1..Len(post_data) :
          post_data[k].date = post_call.grant_date + 7 * post_call.window_weeks

\* the result for a window of n points: degraded below 2, else with a slope
\* key and a direction classified from the slope
ResultFitsCount(metrics, n) ==
    IF n < 2
    THEN metrics = [avg_rate |-> FracZero, trend_direction |-> "unknown",
                    volatility |-> FracZero, change_percent |-> FracZero]
    ELSE /\ DOMAIN metrics = {"avg_rate", "trend_direction", "volatility",
                              "change_percent", "slope"}
         /\ metrics.trend_direction \in {"up", "down", "stable"}
         /\ metrics.trend_direction = "up"
               <=> metrics.slope.num * 100 > metrics.slope.den
         /\ metrics.trend_direction = "down"
               <=> metrics.slope.num * 100 < 0 - metrics.slope.den

C30_RowOrderIrrelevant ==
    /\ pre_call.called =>
          /\ pre_metrics.trend_direction
                = calculate_pre_trend(sort_values_date(fx_data), pre_call.grant_date,
                                      pre_call.window_weeks).trend_direction
          /\ FracEq(pre_metrics.change_percent,
                    calculate_pre_trend(sort_values_date(fx_data), pre_call.grant_date,
                                        pre_call.window_weeks).change_percent)
    /\ post_call.called =>
          /\ post_metrics.trend_direction
                = calculate_post_impact(sort_values_date(fx_data), post_call.grant_date,
                                        post_call.window_weeks).trend_direction
          /\ FracEq(post_metrics.change_percent,
                    calculate_post_impact(sort_values_date(fx_data), post_call.grant_date,
                                          post_call.window_weeks).change_percent)

-----------------------------------------------------------------------------
(* GrantImpactAnalyzer.determine_trend_break / calculate_impact_score       *)

TrendBreakIgnoringStable(pre_m, post_m) ==
    IF pre_m.trend_direction = post_m.trend_direction THEN "continuation" ELSE "break"

determine_trend_break(pre_m, post_m) ==
    LET pre_direction == pre_m.trend_direction
        post_direction == post_m.trend_direction
    IN  IF pre_direction = post_direction THEN "continuation"
        ELSE IF pre_direction = "stable" \/ post_direction = "stable" THEN "neutral"
        ELSE "break"

IMPACT_SCORE_WEIGHTS ==
    [commodity_stability |-> Frac(3, 10),
     trend_deviation     |-> Frac(5, 10),
     magnitude           |-> Frac(2, 10)]

StabilityUnknownAsLow(stability) ==
    CASE stability = "high" -> Frac(10, 10)
      [] stability = "medium" -> Frac(5, 10)
      [] stability = "low" -> Frac(2, 10)
      [] stability = "unknown" -> Frac(2, 10)

\* stability_map[commodity_metrics['stability']]
stability_map(stability) ==
    CASE stability = "high" -> Frac(10, 10)
      [] stability = "medium" -> Frac(5, 10)
      [] stability = "low" -> Frac(2, 10)
      [] stability = "unknown" -> Frac(5, 10)

\* metrics.get('slope', 0)
get_slope(metrics) == IF "slope" \in DOMAIN metrics THEN metrics.slope ELSE FracZero

\* min(a, 1.0)
min_one(a) == IF FracLt(a, FracInt(1)) THEN a ELSE FracInt(1)

\* floor of a fraction
FracFloor(a) == IF a.num >= 0 THEN a.num \div a.den ELSE 0 - ((0 - a.num + a.den - 1) \div a.den)

\* round(x, 2): the nearest hundredth, a tie going to the even hundredth
round_2(x) ==
    LET h    == FracMul(x, FracInt(100))
        q    == FracFloor(h)
        rest == FracSub(h, FracInt(q))
        half == Frac(1, 2)
        up   == \/ FracLt(half, rest)
                \/ FracEq(half, rest) /\ q % 2 = 1
    IN  Frac(IF up THEN q + 1 ELSE q, 100)

ScoreWithoutCap(pre_m, post_m, commodity_m) ==
    LET commodity_score == stability_map(commodity_m.stability)
        slope_change == FracAbs(FracSub(get_slope(post_m), get_slope(pre_m)))
        deviation_score == FracMul(slope_change, FracInt(10))
        magnitude == FracAbs(post_m.change_percent)
        magnitude_score == FracDiv(magnitude, FracInt(20))
        weights == IMPACT_SCORE_WEIGHTS
        final_score ==
            FracAdd(FracAdd(FracMul(weights.commodity_stability, commodity_score),
                            FracMul(weights.trend_deviation, deviation_score)),
                    FracMul(weights.magnitude, magnitude_score))
    IN  round_2(FracAdd(FracInt(1), FracMul(final_score, FracInt(4))))

calculate_impact_score(pre_m, post_m, commodity_m) ==
    LET commodity_score == stability_map(commodity_m.stability)
        pre_slope == get_slope(pre_m)
        post_slope == get_slope(post_m)
        slope_change == FracAbs(FracSub(post_slope, pre_slope))
        deviation_score == min_one(FracMul(slope_change, FracInt(10)))
        magnitude == FracAbs(post_m.change_percent)
        magnitude_score == min_one(FracDiv(magnitude, FracInt(20)))
        weights == IMPACT_SCORE_WEIGHTS
        final_score ==
            FracAdd(FracAdd(FracMul(weights.commodity_stability, commodity_score),
                            FracMul(weights.trend_deviation, deviation_score)),
                    FracMul(weights.magnitude, magnitude_score))
        score == FracAdd(FracInt(1), FracMul(final_score, FracInt(4)))
    IN  round_2(score)

-----------------------------------------------------------------------------
(* Specification SpecScore: determine_trend_break and                       *)
(* calculate_impact_score applied to any metrics                            *)

SlopeSamples == {Frac(0 - 1, 5), Frac(0 - 1, 200), FracZero, Frac(1, 300), Frac(3, 100), Frac(2, 1)}
ChangeSamples == {Frac(0 - 30, 1), Frac(0 - 20, 1), FracZero, Frac(1, 3), Frac(5, 1)}
Stabilities == {"high", "medium", "low", "unknown"}

\* metrics with a slope key (any direction next to any slope) and without one
MetricsSamples ==
    {[avg_rate |-> FracInt(1), trend_direction |-> d, volatility |-> FracZero,
      change_percent |-> c, slope |-> sl] :
        d \in {"up", "down", "stable"}, c \in ChangeSamples, sl \in SlopeSamples}
    \cup {[avg_rate |-> FracZero, trend_direction |-> "unknown", volatility |-> FracZero,
           change_percent |-> c] : c \in ChangeSamples}

CommodityMetricsSamples ==
    {[avg_volatility |-> FracZero, stability |-> st, individual_volatilities |-> <<>>] :
        st \in Stabilities}

InitScore ==
    /\ NoDetector
    /\ NoCorrelation
    /\ NoProvider
    /\ pre_call = NoWindowCall /\ pre_data = <<>>
    /\ post_call = NoWindowCall /\ post_data = <<>>
    /\ pre_metrics \in {m \in MetricsSamples : m.change_percent = FracZero}
    /\ post_metrics \in MetricsSamples
    /\ commodity_metrics \in CommodityMetricsSamples
    /\ trend_status = "none"
    /\ impact_score = NoImpactScore
    /\ analysis_call = NoAnalysisCall
    /\ analysis_results = <<>>
    /\ grant_call = NoGrantCall
    /\ commodity_call = NoCommodityCall
    /\ NoLoader

DetermineTrendBreak ==
    /\ trend_status' = determine_trend_break(pre_metrics, post_metrics)
    /\ UNCHANGED <<detVars, corVars, provVars, windowVars, commodity_metrics,
                   impact_score, analysisVars, grant_call, commodity_call,
                   loaderVars>>

CalculateImpactScore ==
    /\ impact_score' = calculate_impact_score(pre_metrics, post_metrics, commodity_metrics)
    /\ UNCHANGED <<detVars, corVars, provVars, windowVars, commodity_metrics,
                   trend_status, analysisVars, grant_call, commodity_call,
                   loaderVars>>

NextScore == DetermineTrendBreak \/ CalculateImpactScore

SpecScore == InitScore /\ [][NextScore]_vars

-----------------------------------------------------------------------------
(* Properties of the impact score and the trend status                      *)

Scored == impact_score # NoImpactScore

\* C11: for any pre and post metrics, with or without a slope key, and any
\* commodity stability, calculate_impact_score returns a value from 1.0 to 5.0.
C11_ScoreWithinOneAndFive ==
    Scored => /\ impact_score.den > 0
              /\ impact_score.num >= impact_score.den
              /\ impact_score.num <= 5 * impact_score.den

\* a slope change and a magnitude both beyond their caps, scored 5.0
C11_Witness ==
    /\ Scored
    /\ "slope" \in DOMAIN pre_metrics /\ "slope" \in DOMAIN post_metrics
    /\ FracLt(FracInt(1), FracAbs(FracSub(post_metrics.slope, pre_metrics.slope)))
    /\ FracLt(FracInt(20), FracAbs(post_metrics.change_percent))
    /\ impact_score.num = 5 * impact_score.den

\* the three sub-scores, stated from the claim
ExpectedCommodityScore ==
    CASE commodity_metrics.stability = "high" -> Frac(1, 1)
      [] commodity_metrics.stability = "medium" -> Frac(1, 2)
      [] commodity_metrics.stability = "low" -> Frac(1, 5)
      [] commodity_metrics.stability = "unknown" -> Frac(1, 2)
ExpectedDeviationScore ==
    LET pre_s == IF "slope" \in DOMAIN pre_metrics THEN pre_metrics.slope ELSE FracZero
        post_s == IF "slope" \in DOMAIN post_metrics THEN post_metrics.slope ELSE FracZero
        d == FracMul(FracAbs(FracSub(post_s, pre_s)), FracInt(10))
    IN  IF FracLt(FracInt(1), d) THEN FracInt(1) ELSE d
ExpectedMagnitudeScore ==
    LET m == FracDiv(FracAbs(post_metrics.change_percent), FracInt(20))
    IN  IF FracLt(FracInt(1), m) THEN FracInt(1) ELSE m
ExpectedScore ==
    FracAdd(FracInt(1),
            FracMul(FracInt(4),
                    FracAdd(FracMul(Frac(3, 10), ExpectedCommodityScore),
                            FracAdd(FracMul(Frac(5, 10), ExpectedDeviationScore),
                                    FracMul(Frac(2, 10), ExpectedMagnitudeScore)))))

\* C12: the score is 1 + 4*(0.3*c + 0.5*d + 0.2*m) rounded to 2 decimals (a
\* whole number of hundredths at most half a hundredth away), c from the
\* stability map, d = min(|post.slope - pre.slope|*10, 1) with a missing slope
\* read as 0, m = min(|post.change_percent|/20, 1); the weights sum to 1.
C12_ScoreFormula ==
    /\ Scored =>
          /\ 100 % impact_score.den = 0
          /\ ~FracLt(Frac(1, 200), FracAbs(FracSub(impact_score, ExpectedScore)))
    /\ FracEq(FracAdd(IMPACT_SCORE_WEIGHTS.commodity_stability,
                      FracAdd(IMPACT_SCORE_WEIGHTS.trend_deviation,
                              IMPACT_SCORE_WEIGHTS.magnitude)),
              FracInt(1))

\* unknown stability, a pre window without slope key, and a value that is
\* not a whole number of hundredths before rounding
C12_Witness ==
    /\ Scored
    /\ commodity_metrics.stability = "unknown"
    /\ "slope" \notin DOMAIN pre_metrics
    /\ "slope" \in DOMAIN post_metrics /\ post_metrics.slope.num # 0
    /\ ~FracEq(impact_score, ExpectedScore)

-----------------------------------------------------------------------------
(* Specification SpecGrants: correlate_with_grants over any grants table,   *)
(* anomaly and correlation_days                                             *)

MaxGrants == 2      \* most rows of a grants table

GrantDays == {0 - 2, 0, 1, 3, 5}
GrantSources == {"IMF", "World Bank"}
CorrelationDays == {0, 2}

\* grants tables the caller can hand over: any rows in any order
GrantTables == SeqsUpTo({Grant(d, src) : d \in GrantDays, src \in GrantSources}, MaxGrants)

InitGrants ==
    /\ NoDetector
    /\ NoCorrelation
    /\ grants_data \in GrantTables
    /\ external_fetcher = "None"
    /\ imf_cache = [c \in {"GHS", "XXX"} |-> "absent"]
    /\ news_cache = [exists |-> FALSE, readable |-> FALSE, content |-> <<>>]
    /\ NoProviderCall
    /\ NoAnalysis

CorrelateWithGrants ==
    \E anomaly \in AnomalyWindows, correlation_days \in CorrelationDays :
        /\ grant_call' = [called |-> TRUE, anomaly |-> anomaly,
                          correlation_days |-> correlation_days]
        /\ grant_result' = correlate_with_grants(grants_data, anomaly, correlation_days)
        /\ UNCHANGED <<detVars, corVars, grants_data, external_fetcher, imf_cache,
                       news_cache, prov_call, ext_events, lw_result, policy_rates,
                       windowVars, scoreVars, analysisVars, commodity_call,
                       loaderVars>>

NextGrants == CorrelateWithGrants

SpecGrants == InitGrants /\ [][NextGrants]_vars

\* indices of the table rows inside the search window of the last call
RowsInSearchWindow ==
    {k \in 1..Len(grants_data) :
        /\ grants_data[k].disbursement_date
              >= grant_call.anomaly.start_date - grant_call.correlation_days
        /\ grants_data[k].disbursement_date
              <= grant_call.anomaly.end_date + grant_call.correlation_days}

\* the n-th smallest element of a set of numbers
NthOf(S, n) == CHOOSE i \in S : Cardinality({j \in S : j < i}) = n - 1

\* C15: correlate_with_grants returns exactly the grants whose
\* disbursement_date lies in [start_date - correlation_days, end_date +
\* correlation_days], both ends included, in table order, each with the
\* fields date, amount, source, program; has_grant is true exactly when the
\* list is not empty.
C15_GrantsInSearchWindow ==
    grant_call.called =>
        /\ Len(grant_result.grants) = Cardinality(RowsInSearchWindow)
        /\ \A n \in 1..Len(grant_result.grants) :
              LET row == grants_data[NthOf(RowsInSearchWindow, n)]
              IN  grant_result.grants[n] =
                      [date |-> ToString(row.disbursement_date),
                       amount |-> row.amount_usd,
                       source |-> row.source,
                       program |-> row.program_name]
        /\ grant_result.has_grant <=> grant_result.grants # <<>>

\* one grant on the near boundary of the search window, listed, and one
\* outside, left out
C15_Witness ==
    /\ grant_call.called
    /\ grant_call.correlation_days > 0
    /\ Len(grants_data) = 2
    /\ grants_data[2].disbursement_date
          = grant_call.anomaly.start_date - grant_call.correlation_days
    /\ grants_data[1].disbursement_date
          > grant_call.anomaly.end_date + grant_call.correlation_days
    /\ Len(grant_result.grants) = 1
    /\ grant_result.has_grant

-----------------------------------------------------------------------------
(* Specification SpecPolicy: get_external_events with a provider whose      *)
(* policy-rate series is any short series; the news sources answer with no  *)
(* article and the cache writes succeed                                     *)

MaxPolicy == 3      \* longest policy-rate series

PolicyRateValues == {5, 6, 7}
PolicySeries == SeqsUpTo([rate : PolicyRateValues], MaxPolicy)

PolicyEnvironments ==
    {[fred |-> [failed |-> FALSE, series |-> p],
      sources |-> [failed |-> FALSE, articles |-> <<>>],
      cache_fresh |-> FALSE, imf_write |-> "ok", news_write |-> "ok"] :
        p \in PolicySeries}

InitPolicy ==
    /\ NoDetector
    /\ NoCorrelation
    /\ grants_data = <<>>
    /\ external_fetcher = "ExternalDataFetcher"
    /\ imf_cache \in [CountryCodes -> {"absent", "valid"}]
    /\ news_cache \in NewsCaches
    /\ NoProviderCall
    /\ NoAnalysis

NextPolicy == GetExternalEventsIn(PolicyEnvironments)

SpecPolicy == InitPolicy /\ [][NextPolicy]_vars

\* positions of the series whose rate differs from the rate just before
ChangePositions ==
    {i \in 2..Len(policy_rates) : policy_rates[i - 1].rate # policy_rates[i].rate}

\* C16: get_external_events emits one entry {date, previous_rate, new_rate,
\* change = new_rate - previous_rate} for every consecutive pair of the
\* provider's series with unequal rates, in series order, none for equal
\* neighbours, and none at all for a series of 0 or 1 points.
C16_PolicyChangesPerUnequalPair ==
    (prov_call.op = "get_external_events" /\ prov_call.outcome = "returned") =>
        LET changes == ext_events.policy_rate_changes
        IN  /\ Len(changes) = Cardinality(ChangePositions)
            /\ \A n \in 1..Len(changes) :
                  LET i == NthOf(ChangePositions, n)
                  IN  changes[n] =
                          [date |-> ToString(i),
                           previous_rate |-> policy_rates[i - 1].rate,
                           new_rate |-> policy_rates[i].rate,
                           change |-> policy_rates[i].rate - policy_rates[i - 1].rate]
            /\ Len(policy_rates) <= 1 => changes = <<>>

\* a series with an equal pair followed by a fall, giving one entry with a
\* negative change
C16_Witness ==
    /\ prov_call.op = "get_external_events"
    /\ Len(policy_rates) = 3
    /\ policy_rates[1].rate = policy_rates[2].rate
    /\ policy_rates[3].rate < policy_rates[2].rate
    /\ Len(ext_events.policy_rate_changes) = 1
    /\ ext_events.policy_rate_changes[1].change < 0

-----------------------------------------------------------------------------
(* GrantImpactAnalyzer.assess_commodity_influence                           *)

\* the root of a whole number that is a square
IntSqrt(n) == CHOOSE r \in 0..n : r * r = n
IsSquare(n) == \E r \in 0..n : r * r = n

\* the root of a fraction in lowest terms whose root is a fraction
FracSqrt(a) == [num |-> IntSqrt(a.num), den |-> IntSqrt(a.den)]

\* x / 0 in floating point: not a number for 0 / 0, infinite otherwise
FracInf == [num |-> 1, den |-> 0]

\* (commodity_df['date'] >= start_date) & (commodity_df['date'] <= end_date)
period_mask(date, grant_date, window_weeks) ==
    /\ date >= grant_date - timedelta_weeks(window_weeks)
    /\ date <= grant_date + timedelta_weeks(window_weeks)

period_data_of(frame, grant_date, window_weeks) ==
    LET Test(row) == period_mask(row.date, grant_date, window_weeks)
    IN  SelectSeq(frame.rows, Test)

\* period_data['price']
prices_of(data) == [k \in 1..Len(data) |-> FracInt(data[k].price)]

\* period_data['price'].std() / period_data['price'].mean() * 100
cv_percent(data) ==
    LET y == prices_of(data)
        m == mean(y)
        sd == FracSqrt(variance(y))
    IN  IF m.num = 0 THEN (IF sd.num = 0 THEN FracNaN ELSE FracInf)
        ELSE FracMul(FracDiv(sd, m), FracInt(100))

\* len(period_data) > 1
has_volatility(frame, grant_date, window_weeks) ==
    Len(period_data_of(frame, grant_date, window_weeks)) > 1

commodity_volatilities_of(cmap, grant_date, window_weeks) ==
    LET counted == {n \in DOMAIN cmap : has_volatility(cmap[n], grant_date, window_weeks)}
    IN  [n \in counted |-> cv_percent(period_data_of(cmap[n], grant_date, window_weeks))]

\* sum of f[n] over the names n in S
RECURSIVE FracSumOver(_, _)
FracSumOver(f, S) ==
    IF S = {} THEN FracZero
    ELSE LET n == CHOOSE x \in S : TRUE
         IN  FracAdd(f[n], FracSumOver(f, S \ {n}))

\* np.mean(list(commodity_volatilities.values())): not a number as soon as one
\* value is, infinite as soon as one value is
np_mean(f) ==
    IF \E n \in DOMAIN f : f[n] = FracNaN THEN FracNaN
    ELSE IF \E n \in DOMAIN f : f[n] = FracInf THEN FracInf
    ELSE FracDiv(FracSumOver(f, DOMAIN f), FracInt(Cardinality(DOMAIN f)))

\* a comparison with a value that is not a number is false
float_lt(a, b) == a # FracNaN /\ b # FracNaN /\ a.num * b.den < b.num * a.den

classify_stability(avg_volatility) ==
    IF float_lt(avg_volatility, FracInt(10)) THEN "high"
    ELSE IF float_lt(avg_volatility, FracInt(20)) THEN "medium"
    ELSE "low"

assess_commodity_influence(cmap, grant_date, window_weeks) ==
    LET commodity_volatilities == commodity_volatilities_of(cmap, grant_date, window_weeks)
    IN  IF DOMAIN commodity_volatilities # {}
        THEN [avg_volatility |-> np_mean(commodity_volatilities),
              stability |-> classify_stability(np_mean(commodity_volatilities)),
              individual_volatilities |-> commodity_volatilities]
        ELSE [avg_volatility |-> FracZero,
              stability |-> "unknown",
              individual_volatilities |-> commodity_volatilities]

-----------------------------------------------------------------------------
(* Specification SpecCommodity: one analyzer over any commodity map, any    *)
(* sequence of assess_commodity_influence calls                             *)

MaxPrices == 3      \* longest commodity series handed to the analyzer

AnalyzerCommodityDays == {0, 1, 8, 9, 15}
AnalyzerPrices == {0, 8, 10, 12}

\* every window of the series either has fewer than 2 points or has a
\* standard deviation that is a fraction
HasExactStd(rows) ==
    \A g \in GrantDates, w \in WindowWeeks :
        LET data == period_data_of([rows |-> rows], g, w)
            v == variance(prices_of(data))
        IN  Len(data) > 1 => IsSquare(v.num) /\ IsSquare(v.den)

\* the dates of D, oldest first
RECURSIVE SortedDates(_)
SortedDates(D) ==
    IF D = {} THEN <<>>
    ELSE LET first == CHOOSE d \in D : \A e \in D : d <= e
         IN  <<first>> \o SortedDates(D \ {first})

\* commodity series as the loader returns them: oldest first, dates unique
AnalyzerCommodityRows ==
    {rows \in UNION {{[k \in 1..Cardinality(D) |->
                            [date |-> SortedDates(D)[k], price |-> f[SortedDates(D)[k]]]] :
                        f \in [D -> AnalyzerPrices]} :
                     D \in {E \in SUBSET AnalyzerCommodityDays : Cardinality(E) <= MaxPrices}} :
        HasExactStd(rows)}

AnalyzerCommodityFrames == [date_dtype : {"object"}, rows : AnalyzerCommodityRows]

AnalyzerCommodityMaps ==
    UNION {[names -> AnalyzerCommodityFrames] : names \in SUBSET Commodities}

InitCommodity ==
    /\ NoDetector
    /\ commodity_data \in AnalyzerCommodityMaps
    /\ cor_anomaly = [start_date |-> 0, end_date |-> 0]
    /\ cor_result = [movements |-> <<>>,
                     has_significant_movement |-> FALSE,
                     likely_influence |-> FALSE]
    /\ cor_pc = "idle"
    /\ NoProvider
    /\ NoAnalysis

AssessCommodityInfluence ==
    \E g \in GrantDates, w \in WindowWeeks :
        /\ commodity_call' = [called |-> TRUE, grant_date |-> g, window_weeks |-> w]
        /\ commodity_data' =
              [n \in DOMAIN commodity_data |-> to_datetime_inplace(commodity_data[n])]
        /\ commodity_metrics' = assess_commodity_influence(commodity_data', g, w)
        /\ UNCHANGED <<detVars, cor_anomaly, cor_result, cor_pc, provVars, windowVars,
                       trend_status, impact_score, analysisVars, grant_call,
                       loaderVars>>

NextCommodity == AssessCommodityInfluence

SpecCommodity == InitCommodity /\ [][NextCommodity]_vars

\* commodities with at least 2 points dated inside the inclusive window of the
\* last assess_commodity_influence call
CountedCommodities ==
    {n \in DOMAIN commodity_data :
        Cardinality({k \in 1..Len(commodity_data[n].rows) :
            /\ commodity_data[n].rows[k].date
                  >= commodity_call.grant_date - 7 * commodity_call.window_weeks
            /\ commodity_data[n].rows[k].date
                  <= commodity_call.grant_date + 7 * commodity_call.window_weeks}) >= 2}

\* C17: assess_commodity_influence counts a commodity exactly when it has at
\* least 2 points in [grant_date - window_weeks, grant_date + window_weeks];
\* stability is high for a mean CV below 10, medium from 10 to below 20, low
\* for 20 or more, and unknown (avg_volatility 0) exactly when no commodity
\* was counted.
C17_StabilityFromMeanCV ==
    commodity_call.called =>
        LET avg == commodity_metrics.avg_volatility
            IsNumber == avg.den > 0
        IN  /\ DOMAIN commodity_metrics.individual_volatilities = CountedCommodities
            /\ commodity_metrics.stability = "unknown" <=> CountedCommodities = {}
            /\ CountedCommodities = {} => avg = FracZero
            /\ CountedCommodities # {} =>
                  /\ commodity_metrics.stability = "high"
                        <=> (IsNumber /\ avg.num < 10 * avg.den)
                  /\ commodity_metrics.stability = "medium"
                        <=> (IsNumber /\ avg.num >= 10 * avg.den /\ avg.num < 20 * avg.den)
                  /\ commodity_metrics.stability = "low"
                        <=> (avg = FracInf \/ (IsNumber /\ avg.num >= 20 * avg.den))

-----------------------------------------------------------------------------
(* GrantImpactAnalyzer.analyze_grant / analyze_all_grants                   *)

CommodityWindowAsPre(pre_weeks, post_weeks) == pre_weeks

\* (pre_weeks + post_weeks) // 2
commodity_window_weeks(pre_weeks, post_weeks) == (pre_weeks + post_weeks) \div 2

analyze_grant(fx, cmap, grant_row, pre_weeks, post_weeks) ==
    LET grant_date == grant_row.disbursement_date
        pre_m == calculate_pre_trend(fx, grant_date, pre_weeks)
        post_m == calculate_post_impact(fx, grant_date, post_weeks)
        commodity_m ==
            assess_commodity_influence(cmap, grant_date,
                                       commodity_window_weeks(pre_weeks, post_weeks))
    IN  [grant_date |-> grant_date,
         grant_amount |-> grant_row.amount_usd,
         grant_source |-> grant_row.source,
         program_name |-> grant_row.program_name,
         pre_metrics |-> pre_m,
         post_metrics |-> post_m,
         commodity_metrics |-> commodity_m,
         trend_status |-> determine_trend_break(pre_m, post_m),
         impact_score |-> calculate_impact_score(pre_m, post_m, commodity_m)]

\* the loop over self.grants_data.iterrows()
RECURSIVE analyze_all_grants(_, _, _, _, _)
analyze_all_grants(fx, cmap, grants, pre_weeks, post_weeks) ==
    IF grants = <<>> THEN <<>>
    ELSE <<analyze_grant(fx, cmap, Head(grants), pre_weeks, post_weeks)>>
         \o analyze_all_grants(fx, cmap, Tail(grants), pre_weeks, post_weeks)

-----------------------------------------------------------------------------
(* Specification SpecAnalysis: one analyzer over a rate series, a commodity *)
(* map and a grants table, any sequence of analyze_all_grants calls         *)

\* rate series, oldest first
AnalysisSeries ==
    {s \in AnalyzerSeries : \A a, b \in 1..Len(s) : a < b => s[a].date < s[b].date}

AnalysisGrantTables ==
    {<<>>,
     <<Grant(8, "IMF")>>,
     <<Grant(8, "World Bank"), Grant(7, "IMF")>>}

AnalysisCommodityMaps ==
    {<<>>,
     [n \in {"Gold"} |->
        [date_dtype |-> "object",
         rows |-> <<[date |-> 0, price |-> 10], [date |-> 9, price |-> 10]>>]],
     [n \in {"Gold", "Oil"} |->
        IF n = "Gold"
        THEN [date_dtype |-> "object",
              rows |-> <<[date |-> 1, price |-> 8], [date |-> 8, price |-> 10],
                         [date |-> 9, price |-> 12]>>]
        ELSE [date_dtype |-> "object",
              rows |-> <<[date |-> 0, price |-> 10], [date |-> 9, price |-> 10]>>]]}

InitAnalysis ==
    /\ fx_data \in AnalysisSeries
    /\ det_call = [threshold_percent |-> 0, window_days |-> 0]
    /\ anomalies = <<>>
    /\ det_pc = "idle"
    /\ commodity_data \in AnalysisCommodityMaps
    /\ cor_anomaly = [start_date |-> 0, end_date |-> 0]
    /\ cor_result = [movements |-> <<>>,
                     has_significant_movement |-> FALSE,
                     likely_influence |-> FALSE]
    /\ cor_pc = "idle"
    /\ grants_data \in AnalysisGrantTables
    /\ external_fetcher = "None"
    /\ imf_cache = [c \in {"GHS", "XXX"} |-> "absent"]
    /\ news_cache = [exists |-> FALSE, readable |-> FALSE, content |-> <<>>]
    /\ NoProviderCall
    /\ NoAnalysis

\* assess_commodity_influence runs once per grant row and converts the date
\* column of every frame of the shared map
AnalyzeAllGrants ==
    \E pre_weeks \in WindowWeeks, post_weeks \in WindowWeeks :
        /\ analysis_call' = [called |-> TRUE, pre_weeks |-> pre_weeks,
                             post_weeks |-> post_weeks]
        /\ commodity_data' =
              IF grants_data = <<>> THEN commodity_data
              ELSE [n \in DOMAIN commodity_data |-> to_datetime_inplace(commodity_data[n])]
        /\ analysis_results' =
              analyze_all_grants(fx_data, commodity_data', grants_data, pre_weeks, post_weeks)
        /\ UNCHANGED <<detVars, cor_anomaly, cor_result, cor_pc, provVars, windowVars,
                       scoreVars, grant_call, commodity_call,
                       loaderVars>>

NextAnalysis == AnalyzeAllGrants

SpecAnalysis == InitAnalysis /\ [][NextAnalysis]_vars

\* C18: analyze_all_grants returns one analysis per row of the grants table,
\* in table order (none for an empty table), each equal to analyze_grant of
\* that row: the pre window uses pre_weeks, the post window post_weeks and the
\* commodity window (pre_weeks + post_weeks) // 2.
C18_OneAnalysisPerGrantRow ==
    analysis_call.called =>
        /\ Len(analysis_results) = Len(grants_data)
        /\ \A k \in 1..Len(grants_data) :
              LET date == grants_data[k].disbursement_date
                  r == analysis_results[k]
              IN  /\ r = analyze_grant(fx_data, commodity_data, grants_data[k],
                                       analysis_call.pre_weeks, analysis_call.post_weeks)
                  /\ r.grant_date = date
                  /\ r.grant_source = grants_data[k].source
                  /\ r.pre_metrics = calculate_pre_trend(fx_data, date, analysis_call.pre_weeks)
                  /\ r.post_metrics =
                        calculate_post_impact(fx_data, date, analysis_call.post_weeks)
                  /\ r.commodity_metrics =
                        assess_commodity_influence(commodity_data, date,
                            (analysis_call.pre_weeks + analysis_call.post_weeks) \div 2)

\* two grants out of date order, pre_weeks 2 and post_weeks 1: the commodity
\* window is 1 week, in which the first grant has no counted commodity while
\* it would have one in 2 weeks
C18_Witness ==
    /\ analysis_call.called
    /\ analysis_call.pre_weeks = 2 /\ analysis_call.post_weeks = 1
    /\ Len(analysis_results) = 2
    /\ analysis_results[1].grant_date > analysis_results[2].grant_date
    /\ analysis_results[1].commodity_metrics.stability = "unknown"
    /\ assess_commodity_influence(commodity_data, analysis_results[1].grant_date, 2).stability
          = "high"
    /\ "slope" \in DOMAIN analysis_results[1].pre_metrics

\* C28: analyze_grant reports trend_status 'break' only when both windows
\* have a computed trend: a grant with a degenerate pre or post window
\* (trend_direction 'unknown') is never classified as a trend break.
C28_BreakNeedsBothTrends ==
    analysis_call.called =>
        \A k \in 1..Len(analysis_results) :
            analysis_results[k].trend_status = "break" =>
                /\ analysis_results[k].pre_metrics.trend_direction # "unknown"
                /\ analysis_results[k].post_metrics.trend_direction # "unknown"

-----------------------------------------------------------------------------
(* Specification SpecThreshold: detect_steep_movements called again and     *)
(* again on one series, with one threshold_percent and another              *)

\* two legs of 4.9 percent that make 10.3 percent together, inside a rise of
\* 5 percent over six days and of 10 percent over twelve
ThresholdSeries ==
    {<<[date |-> 0, rate |-> 1000], [date |-> 1, rate |-> 951],
       [date |-> 5, rate |-> 1049], [date |-> 6, rate |-> 1050],
       [date |-> 12, rate |-> 1100]>>}

InitThreshold ==
    /\ fx_data \in RateSeries \cup ThresholdSeries
    /\ det_call = [threshold_percent |-> 0, window_days |-> 0]
    /\ anomalies = <<>>
    /\ det_pc = "idle"
    /\ NoCorrelation
    /\ NoProvider
    /\ NoAnalysis

SpecThreshold == InitThreshold /\ [][Next]_vars

\* C29: for a fixed rate series and window_days, raising threshold_percent
\* never increases the number of anomalies: the list of the last call is at
\* most as long as the list a call with any lower threshold_percent returns.
C29_HigherThresholdFewerAnomalies ==
    det_pc = "detected" =>
        \A t1 \in Thresholds :
            t1 <= det_call.threshold_percent =>
                Len(anomalies)
                    <= Len(detect_steep_movements(fx_data, t1, det_call.window_days))

-----------------------------------------------------------------------------
(* Specification SpecDetector: one detector, detect_steep_movements          *)
(* interleaved with the detector's other operations                          *)

DetectorSeries ==
    {<<[date |-> 0, rate |-> 100], [date |-> 1, rate |-> 110], [date |-> 8, rate |-> 100]>>,
     <<[date |-> 8, rate |-> 110], [date |-> 2, rate |-> 100], [date |-> 0, rate |-> 110]>>,
     <<[date |-> 3, rate |-> 100], [date |-> 4, rate |-> 100]>>,
     <<[date |-> 0, rate |-> 100], [date |-> 0, rate |-> 110],
       [date |-> 1, rate |-> 121], [date |-> 8, rate |-> 100]>>}

InitDetector ==
    /\ fx_data \in DetectorSeries
    /\ det_call = [threshold_percent |-> 0, window_days |-> 0]
    /\ anomalies = <<>>
    /\ det_pc = "idle"
    /\ commodity_data \in SampleCommodityMaps
    /\ cor_anomaly = [start_date |-> 0, end_date |-> 0]
    /\ cor_result = [movements |-> <<>>,
                     has_significant_movement |-> FALSE,
                     likely_influence |-> FALSE]
    /\ cor_pc = "idle"
    /\ grants_data \in SampleGrantTables
    /\ external_fetcher = "None"
    /\ imf_cache = [c \in {"GHS", "XXX"} |-> "absent"]
    /\ news_cache = [exists |-> FALSE, readable |-> FALSE, content |-> <<>>]
    /\ NoProviderCall
    /\ NoAnalysis

\* investigate_anomaly on one of the anomalies the last detection returned
InvestigateDetected ==
    \E k \in 1..Len(anomalies) :
        InvestigateAnomalyOf([start_date |-> anomalies[k].start_date,
                              end_date |-> anomalies[k].end_date])

NextDetector ==
    \/ Detect
    \/ InvestigateDetected
    \/ CheckCorrelationsLightweight
    \/ GetExternalEvents
    \/ CorrelateCommodities
    \/ CorrelateWithGrants

SpecDetector == InitDetector /\ [][NextDetector]_vars

\* C20: detect_steep_movements is deterministic and leaves the detector
\* unchanged: the list of the last call is the one the rate series and the
\* call's threshold_percent and window_days determine, whatever other
\* operations ran since; a call with the threshold_percent and window_days of
\* the call before it returns the same list in the same order; and no
\* operation changes the rate series or the grants table.
C20_DetectionRepeatable ==
    /\ [](det_pc = "detected" =>
            anomalies = sort_by_magnitude(
                            found_anomalies(fx_data, det_call.threshold_percent,
                                            det_call.window_days)))
    /\ [][/\ (det_pc = "detected" /\ det_pc' = "detected" /\ det_call' = det_call)
                => anomalies' = anomalies
          /\ fx_data' = fx_data
          /\ grants_data' = grants_data
          /\ (anomalies' # anomalies \/ det_call' # det_call \/ det_pc' # det_pc)
                => UNCHANGED <<commodity_data, external_fetcher>>]_vars

\* C27: within the list one detect_steep_movements call returned,
\* generate_anomaly_id is injective: no two anomalies of the list have the
\* same start day and the same end day, so no two share a note id.
C27_AnomalyIdsDistinct ==
    det_pc = "detected" =>
        \A a, b \in 1..Len(anomalies) :
            a # b =>
                /\ generate_anomaly_id(anomalies[a]) # generate_anomaly_id(anomalies[b])
                /\ \/ anomalies[a].start_date # anomalies[b].start_date
                   \/ anomalies[a].end_date # anomalies[b].end_date

\* a series with two rows of one day, both steep against a later day: the
\* detection returned two anomalies that start on that day, with different
\* end days
C27_Witness ==
    /\ det_pc = "detected"
    /\ \E a, b \in 1..Len(fx_data) :
          /\ a # b
          /\ fx_data[a].date = fx_data[b].date
          /\ \E k \in 1..Len(fx_data) :
                /\ window_mask(fx_data[k].date, fx_data[a].date, det_call.window_days)
                /\ exceeds_threshold(change_percent_of(fx_data[a].rate, fx_data[k].rate),
                                     det_call.threshold_percent)
                /\ exceeds_threshold(change_percent_of(fx_data[b].rate, fx_data[k].rate),
                                     det_call.threshold_percent)
    /\ \E a, b \in 1..Len(anomalies) :
          /\ a # b
          /\ anomalies[a].start_date = anomalies[b].start_date

\* a detection returned two anomalies, one of them was then investigated, and
\* the grants and the commodities were correlated: the state from which the
\* detection is called again
C20_Witness ==
    /\ det_pc = "detected"
    /\ Len(anomalies) >= 2
    /\ cor_pc = "correlated"
    /\ prov_call.op = "investigate_anomaly"
    /\ \E k \in 1..Len(anomalies) :
          /\ cor_anomaly.start_date = anomalies[k].start_date
          /\ cor_anomaly.end_date = anomalies[k].end_date
    /\ grant_call.called

-----------------------------------------------------------------------------
(* etl_grants: parse_imf_csv, parse_worldbank_csv, standardize_grants       *)

MaxEtlRows == 2     \* most rows in one grant file

\* COUNTRY_CODE_MAP.get(country_name, '')
COUNTRY_CODE_MAP(country_name) ==
    CASE country_name = "Ghana"  -> "GHA"
      [] country_name = "Turkey" -> "TUR"
      [] OTHER                   -> ""

\* imf_country_map.get(imf_member, imf_member)
imf_country_map(imf_member) ==
    IF imf_member = "Turkiye, Republic of" THEN "Turkey" ELSE imf_member

\* wb_country_map.get(wb_country, wb_country)
wb_country_map(wb_country) ==
    CASE wb_country = "Republic of Ghana"   -> "Ghana"
      [] wb_country = "Republic of Turkiye" -> "Turkey"
      [] OTHER                              -> wb_country

\* a date cell: blank, unparseable text, or a day with a time of day
BlankCell == [kind |-> "blank", value |-> 0, hour |-> 0]
TextCell == [kind |-> "text", value |-> 0, hour |-> 0]
DateCell(day, hour) == [kind |-> "date", value |-> day, hour |-> hour]
\* an amount cell: blank (read as NaN), text that float() rejects, or a number
NumberCell(n) == [kind |-> "number", value |-> n, hour |-> 0]

\* pd.to_datetime(cell).strftime('%Y-%m-%d'), read back by pd.to_datetime in
\* standardize_grants: the day, without the time of day
strftime_day(cell) == cell.value

\* IMF: float(str(cell).replace(',', '')), 0.0 when float() raises; a blank
\* cell is NaN, str(NaN) is 'nan' and float('nan') is NaN
imf_amount_of(cell) ==
    CASE cell.kind = "number" -> FracInt(cell.value)
      [] cell.kind = "blank"  -> FracNaN
      [] OTHER                -> FracZero

\* pd.isna(amount) or amount == 0
isna_or_zero(cell) ==
    cell.kind = "blank" \/ (cell.kind = "number" /\ cell.value = 0)

\* World Bank: the first of the four amount columns that is neither NaN nor 0,
\* else the last one; then float(amount), 0.0 when float() raises
RECURSIVE first_amount_cell(_)
first_amount_cell(cells) ==
    IF Len(cells) = 1 \/ ~isna_or_zero(Head(cells)) THEN Head(cells)
    ELSE first_amount_cell(Tail(cells))

wb_amount_of(cells) == imf_amount_of(first_amount_cell(cells))

\* if amount <= 0: continue
amount_skipped(amount) == float_lt(amount, FracZero) \/ amount = FracZero

grant_record(country_name, cell, amount, source, program) ==
    [country_code |-> COUNTRY_CODE_MAP(country_name),
     country_name |-> country_name,
     disbursement_date |-> strftime_day(cell),
     amount_usd |-> amount,
     source |-> source,
     program_name |-> program]

imf_row_kept(row) ==
    /\ COUNTRY_CODE_MAP(imf_country_map(row.Member)) # ""
    /\ row.Date.kind = "date"
    /\ ~amount_skipped(imf_amount_of(row.Amount))

wb_row_kept(row) ==
    /\ COUNTRY_CODE_MAP(wb_country_map(row.Country)) # ""
    /\ row.Date.kind = "date"
    /\ ~amount_skipped(wb_amount_of(row.Amounts))

RECURSIVE parse_imf_rows(_)
parse_imf_rows(rows) ==
    IF rows = <<>> THEN <<>>
    ELSE (IF imf_row_kept(Head(rows))
          THEN <<grant_record(imf_country_map(Head(rows).Member), Head(rows).Date,
                              imf_amount_of(Head(rows).Amount), "IMF",
                              Head(rows).Description)>>
          ELSE <<>>) \o parse_imf_rows(Tail(rows))

RECURSIVE parse_wb_rows(_)
parse_wb_rows(rows) ==
    IF rows = <<>> THEN <<>>
    ELSE (IF wb_row_kept(Head(rows))
          THEN <<grant_record(wb_country_map(Head(rows).Country), Head(rows).Date,
                              wb_amount_of(Head(rows).Amounts), "World Bank",
                              Head(rows).Project)>>
          ELSE <<>>) \o parse_wb_rows(Tail(rows))

\* a file that cannot be read gives an empty frame
parse_imf_csv(file) == IF file.readable THEN parse_imf_rows(file.rows) ELSE <<>>
parse_worldbank_csv(file) == IF file.readable THEN parse_wb_rows(file.rows) ELSE <<>>

\* pd.concat of the non-empty frames, IMF files first
RECURSIVE concat_imf(_)
concat_imf(files) ==
    IF files = <<>> THEN <<>> ELSE parse_imf_csv(Head(files)) \o concat_imf(Tail(files))

RECURSIVE concat_wb(_)
concat_wb(files) ==
    IF files = <<>> THEN <<>>
    ELSE parse_worldbank_csv(Head(files)) \o concat_wb(Tail(files))

\* sort_values('disbursement_date'): rows of one date keep their order (tables
\* of this size are sorted by insertion)
RECURSIVE InsertByDisbursement(_, _)
InsertByDisbursement(row, sorted) ==
    IF sorted = <<>> THEN <<row>>
    ELSE IF row.disbursement_date < Head(sorted).disbursement_date THEN <<row>> \o sorted
    ELSE <<Head(sorted)>> \o InsertByDisbursement(row, Tail(sorted))

RECURSIVE sort_by_disbursement(_)
sort_by_disbursement(rows) ==
    IF rows = <<>> THEN <<>>
    ELSE InsertByDisbursement(rows[Len(rows)],
                              sort_by_disbursement(SubSeq(rows, 1, Len(rows) - 1)))

\* the subset of drop_duplicates; a NaN amount equals a NaN amount there
dedup_key(row) == <<row.country_code, row.disbursement_date, row.amount_usd>>

\* drop_duplicates(subset=[...], keep='first')
RECURSIVE drop_duplicates(_)
drop_duplicates(rows) ==
    IF rows = <<>> THEN <<>>
    ELSE LET before == drop_duplicates(SubSeq(rows, 1, Len(rows) - 1))
             last == rows[Len(rows)]
         IN  IF \E k \in 1..Len(before) : dedup_key(before[k]) = dedup_key(last)
             THEN before ELSE Append(before, last)

standardize_grants(ifiles, wfiles) ==
    drop_duplicates(sort_by_disbursement(concat_imf(ifiles) \o concat_wb(wfiles)))

-----------------------------------------------------------------------------
(* Specification SpecEtl: any IMF and World Bank files, standardize_grants  *)

ImfRows ==
    {[Member |-> "Ghana", Description |-> "ECF", Date |-> DateCell(1, 0),
      Amount |-> NumberCell(1000)],
     [Member |-> "Ghana", Description |-> "RCF", Date |-> DateCell(1, 12),
      Amount |-> NumberCell(1000)],
     [Member |-> "Turkiye, Republic of", Description |-> "SBA", Date |-> DateCell(2, 0),
      Amount |-> NumberCell(500)],
     [Member |-> "Ghana", Description |-> "ECF", Date |-> DateCell(2, 0),
      Amount |-> BlankCell],
     [Member |-> "Ghana", Description |-> "ECF", Date |-> DateCell(0, 0),
      Amount |-> NumberCell(0 - 5)],
     [Member |-> "Atlantis", Description |-> "ECF", Date |-> BlankCell,
      Amount |-> TextCell]}

WbRows ==
    {[Country |-> "Republic of Ghana", Project |-> "Roads", Date |-> DateCell(1, 0),
      Amounts |-> <<NumberCell(1000), BlankCell, BlankCell, BlankCell>>],
     [Country |-> "Republic of Ghana", Project |-> "Water", Date |-> DateCell(3, 0),
      Amounts |-> <<BlankCell, NumberCell(0), NumberCell(500), BlankCell>>],
     [Country |-> "Republic of Turkiye", Project |-> "Rail", Date |-> DateCell(0, 0),
      Amounts |-> <<BlankCell, BlankCell, BlankCell, BlankCell>>],
     [Country |-> "Republic of Ghana", Project |-> "Power", Date |-> TextCell,
      Amounts |-> <<NumberCell(0), NumberCell(0), NumberCell(0), NumberCell(0)>>]}

ImfFiles == [readable : {TRUE}, rows : SeqsUpTo(ImfRows, MaxEtlRows)]
WbFiles == [readable : {TRUE}, rows : SeqsUpTo(WbRows, MaxEtlRows)]
UnreadableFile == [readable |-> FALSE, rows |-> <<>>]

\* the directories hold no file, one file, or an unreadable file and a file
ImfFileLists ==
    {<<>>} \cup {<<f>> : f \in ImfFiles} \cup {<<UnreadableFile, f>> : f \in ImfFiles}
WbFileLists == {<<>>} \cup {<<f>> : f \in WbFiles}

InitEtl ==
    /\ NoDetector
    /\ NoCorrelation
    /\ NoProvider
    /\ NoWindows
    /\ NoScore
    /\ analysis_call = NoAnalysisCall
    /\ analysis_results = <<>>
    /\ grant_call = NoGrantCall
    /\ commodity_call = NoCommodityCall
    /\ imf_files \in ImfFileLists
    /\ wb_files \in WbFileLists
    /\ std_grants = <<>>
    /\ etl_pc = "idle"
    /\ NoFx
    /\ NoNotes

StandardizeGrants ==
    /\ std_grants' = standardize_grants(imf_files, wb_files)
    /\ etl_pc' = "standardized"
    /\ UNCHANGED <<detVars, corVars, provVars, windowVars, scoreVars, analysisVars,
                   grant_call, commodity_call, imf_files, wb_files, fxVars, noteVars>>

NextEtl == StandardizeGrants

SpecEtl == InitEtl /\ [][NextEtl]_vars

\* C22: the table standardize_grants returns has no two rows with the same
\* (country_code, disbursement_date, amount_usd), and every row has
\* amount_usd > 0 and source IMF or World Bank.
C22_UniquePositiveGrants ==
    etl_pc = "standardized" =>
        /\ \A a, b \in 1..Len(std_grants) :
              a # b => dedup_key(std_grants[a]) # dedup_key(std_grants[b])
        /\ \A k \in 1..Len(std_grants) :
              /\ float_lt(FracZero, std_grants[k].amount_usd)
              /\ std_grants[k].source \in {"IMF", "World Bank"}

-----------------------------------------------------------------------------
(* fx_loader: is_cache_valid, clean_outliers, get_fx_data                   *)

MaxFxDay == 3       \* the source has one rate point on each day 1..MaxFxDay

MAX_RETRIES == 3
SIGMA_THRESHOLD == 3

FxCurrencies == {"GHS", "TRY"}

\* what Yahoo Finance holds for a currency
FxSource(currency) ==
    [d \in 1..MaxFxDay |-> [date |-> d, rate |-> FracInt(100 + d)]]

in_date_range(rows, start_date, end_date) ==
    SelectSeq(rows, LAMBDA r : r.date >= start_date /\ r.date <= end_date)

\* fetch_fx_rates: the source's points of the range, or an empty frame when the
\* request fails or the range holds no point
fetch_fx_rates(currency, start_date, end_date, ok) ==
    IF ok THEN in_date_range(FxSource(currency), start_date, end_date) ELSE <<>>

\* load_fx_from_csv: an empty frame when the file cannot be read
load_fx_from_csv(cache) == IF cache.exists THEN cache.rows ELSE <<>>

\* is_cache_valid(cache_file, hours=12)
is_cache_valid(cache) == cache.exists /\ cache.fresh

\* (rate > mean + 3 std) | (rate < mean - 3 std), false when std is NaN
outliers_mask(rows) ==
    IF Len(rows) < 2 THEN [k \in 1..Len(rows) |-> FALSE]
    ELSE LET m == mean(rates_of(rows))
             bound == FracMul(FracInt(SIGMA_THRESHOLD * SIGMA_THRESHOLD),
                              variance(rates_of(rows)))
         IN  [k \in 1..Len(rows) |->
                 FracLt(bound, FracMul(FracSub(rows[k].rate, m),
                                       FracSub(rows[k].rate, m)))]

\* interpolate(method='linear') by position, then bfill().ffill()
interpolated_rate(rows, mask, k) ==
    LET before == {j \in 1..(k - 1) : ~mask[j]}
        after  == {j \in (k + 1)..Len(rows) : ~mask[j]}
        p == CHOOSE j \in before : \A i \in before : i <= j
        q == CHOOSE j \in after : \A i \in after : j <= i
    IN  IF before # {} /\ after # {}
        THEN FracAdd(rows[p].rate,
                     FracDiv(FracMul(FracSub(rows[q].rate, rows[p].rate), FracInt(k - p)),
                             FracInt(q - p)))
        ELSE IF before # {} THEN rows[p].rate
        ELSE IF after # {} THEN rows[q].rate
        ELSE FracNaN

clean_outliers(rows) ==
    LET mask == outliers_mask(rows)
    IN  [k \in 1..Len(rows) |->
            IF mask[k] THEN [rows[k] EXCEPT !.rate = interpolated_rate(rows, mask, k)]
            ELSE rows[k]]

\* the network as one call meets it: first_ok is the first attempt that gets an
\* answer (0: none does), write is what happens to df.to_csv
FxEnvironments == [first_ok : 0..MAX_RETRIES, write : {"ok", "failed"}]

\* the retry loop: the number of fetch_fx_rates calls made
attempts_of(fetched, env) ==
    IF fetched # <<>> /\ env.first_ok > 0 THEN env.first_ok ELSE MAX_RETRIES

FreshCacheRefetched(cache, currency, start_date, end_date, use_cache, env) ==
    LET df == fetch_fx_rates(currency, start_date, end_date, env.first_ok > 0)
        cached == load_fx_from_csv(cache)
    IN  IF df # <<>>
        THEN [present |-> TRUE, rows |-> df, attempts |-> attempts_of(df, env),
              cache |-> IF env.write = "ok"
                        THEN [exists |-> TRUE, fresh |-> TRUE, rows |-> df] ELSE cache]
        ELSE IF cache.exists /\ cached # <<>>
        THEN [present |-> TRUE, rows |-> in_date_range(cached, start_date, end_date),
              attempts |-> MAX_RETRIES, cache |-> cache]
        ELSE [present |-> FALSE, rows |-> <<>>, attempts |-> MAX_RETRIES, cache |-> cache]

\* one turn of the loop of get_fx_data over the currencies
get_fx_currency(cache, currency, start_date, end_date, use_cache, env) ==
    LET cached == load_fx_from_csv(cache)
        df == fetch_fx_rates(currency, start_date, end_date, env.first_ok > 0)
    IN  IF use_cache /\ cache.exists /\ is_cache_valid(cache) /\ cached # <<>>
        THEN [present |-> TRUE,
              rows |-> in_date_range(clean_outliers(cached), start_date, end_date),
              attempts |-> 0, cache |-> cache]
        ELSE IF df # <<>>
        THEN [present |-> TRUE, rows |-> df, attempts |-> attempts_of(df, env),
              cache |-> IF env.write = "ok"
                        THEN [exists |-> TRUE, fresh |-> TRUE, rows |-> df] ELSE cache]
        ELSE IF cache.exists /\ cached # <<>>
        THEN [present |-> TRUE, rows |-> in_date_range(cached, start_date, end_date),
              attempts |-> MAX_RETRIES, cache |-> cache]
        ELSE [present |-> FALSE, rows |-> <<>>, attempts |-> MAX_RETRIES, cache |-> cache]

get_fx_data(caches, currencies, start_date, end_date, use_cache, envs) ==
    [c \in currencies |->
        get_fx_currency(caches[c], c, start_date, end_date, use_cache, envs[c])]

\* what one get_fx_data call does to the cache files, and what it returns
FxStep(currencies, start_date, end_date, use_cache, envs) ==
    LET r == get_fx_data(fx_cache, currencies, start_date, end_date, use_cache, envs)
    IN  /\ fx_call' = [called |-> TRUE, currencies |-> currencies,
                       start_date |-> start_date, end_date |-> end_date,
                       use_cache |-> use_cache, envs |-> envs,
                       cache_before |-> fx_cache]
        /\ fx_result' = [c \in currencies |->
                            [present |-> r[c].present, rows |-> r[c].rows,
                             attempts |-> r[c].attempts]]
        /\ fx_cache' = [c \in FxCurrencies |->
                           IF c \in currencies THEN r[c].cache ELSE fx_cache[c]]

GetFxDataIn(currency_sets, use_cache_values) ==
    \E currencies \in currency_sets, start_date \in 1..MaxFxDay, end_date \in 1..MaxFxDay,
       use_cache \in use_cache_values :
        \E envs \in [currencies -> FxEnvironments] :
            /\ start_date <= end_date
            /\ FxStep(currencies, start_date, end_date, use_cache, envs)
            /\ UNCHANGED <<detVars, corVars, provVars, windowVars, scoreVars,
                           analysisVars, grant_call, commodity_call, etlVars, noteVars,
                           comm_cache, prefetch_call>>

\* twelve hours pass: every cache file is now expired
CachesExpire ==
    /\ \/ \E c \in FxCurrencies : fx_cache[c].fresh
       \/ \E n \in DOMAIN comm_cache : comm_cache[n] = "fresh"
    /\ fx_cache' = [c \in FxCurrencies |-> [fx_cache[c] EXCEPT !.fresh = FALSE]]
    /\ comm_cache' = [n \in DOMAIN comm_cache |->
                         IF comm_cache[n] = "fresh" THEN "expired" ELSE comm_cache[n]]
    /\ UNCHANGED <<detVars, corVars, provVars, windowVars, scoreVars, analysisVars,
                   grant_call, commodity_call, etlVars, fx_call, fx_result, prefetch_call,
                   noteVars>>

-----------------------------------------------------------------------------
(* Specification SpecFx: get_fx_data for one currency over any date ranges, *)
(* with the network answering or not and the caches ageing                  *)

InitFx ==
    /\ NoDetector
    /\ NoCorrelation
    /\ NoProvider
    /\ NoAnalysis

GetFxData == GetFxDataIn({{"GHS"}}, BOOLEAN)

NextFx == GetFxData \/ CachesExpire

SpecFx == InitFx /\ [][NextFx]_vars

\* the source's points of the last call's range
RequestedSourceRows ==
    SelectSeq(FxSource("GHS"),
              LAMBDA r : r.date >= fx_call.start_date /\ r.date <= fx_call.end_date)

\* the cache file holds what it held before the call (its age aside)
FileAsBefore(before) ==
    fx_cache["GHS"].exists = before.exists /\ fx_cache["GHS"].rows = before.rows

RowsWithin(rows) ==
    SelectSeq(rows, LAMBDA r : r.date >= fx_call.start_date /\ r.date <= fx_call.end_date)

\* C24: get_fx_data with use_cache=True, per currency: a fresh non-empty cache
\* is served with no fetch attempt; otherwise at most 3 attempts are made,
\* stopping at the first non-empty result, which is returned and written to the
\* cache; when every attempt fails and a readable cache exists, even expired,
\* the cached rows of [start_date, end_date] are returned; the currency is
\* absent only when the fetch failed and no usable cache exists.
C24_CacheRetryFallback ==
    (fx_call.called /\ fx_call.use_cache) =>
        LET before == fx_call.cache_before["GHS"]
            env == fx_call.envs["GHS"]
            r == fx_result["GHS"]
            usable == before.exists /\ before.rows # <<>>
            fetched == env.first_ok > 0 /\ RequestedSourceRows # <<>>
        IN  /\ (before.fresh /\ usable)
                  => /\ r.attempts = 0
                     /\ r.present
                     /\ \A k \in 1..Len(r.rows) : r.rows[k].date \in
                           {before.rows[j].date : j \in 1..Len(before.rows)}
                     /\ FileAsBefore(before)
            /\ ~(before.fresh /\ usable)
                  => /\ r.attempts \in 1..MAX_RETRIES
                     /\ fetched => /\ r.attempts = env.first_ok
                                   /\ r.present
                                   /\ r.rows = RequestedSourceRows
                                   /\ env.write = "ok" =>
                                         /\ fx_cache["GHS"].exists
                                         /\ fx_cache["GHS"].rows = r.rows
                     /\ ~fetched => /\ r.attempts = MAX_RETRIES
                                    /\ usable => (r.present /\ r.rows = RowsWithin(before.rows))
                                    /\ FileAsBefore(before)
            /\ ~r.present <=> (~fetched /\ ~usable)

\* a call that met an expired cache and a dead network returned the cached rows
\* of its range
C24_Witness ==
    /\ fx_call.called /\ fx_call.use_cache
    /\ fx_call.cache_before["GHS"].exists
    /\ ~fx_call.cache_before["GHS"].fresh
    /\ fx_call.envs["GHS"].first_ok = 0
    /\ fx_result["GHS"].present
    /\ fx_result["GHS"].attempts = MAX_RETRIES
    /\ Len(fx_result["GHS"].rows) = 1
    /\ Len(fx_call.cache_before["GHS"].rows) = 2

\* Specification SpecFxCached: the same, every call made with use_cache=True
GetFxDataCached == GetFxDataIn({{"GHS"}}, {TRUE})

NextFxCached == GetFxDataCached \/ CachesExpire

SpecFxCached == InitFx /\ [][NextFxCached]_vars

\* C25: a get_fx_data(use_cache=True) call served from a fresh cache returns
\* every rate point the source has within its own [start_date, end_date], the
\* points a fresh fetch for that range would return, whatever ranges earlier
\* calls asked for.
C25_FreshCacheCoversRequestedRange ==
    (/\ fx_call.called /\ fx_call.use_cache
     /\ fx_result["GHS"].present /\ fx_result["GHS"].attempts = 0)
        => {fx_result["GHS"].rows[k].date : k \in 1..Len(fx_result["GHS"].rows)}
              = {RequestedSourceRows[k].date : k \in 1..Len(RequestedSourceRows)}

-----------------------------------------------------------------------------
(* prefetch_data: should_prefetch, prefetch_all_data                        *)

\* PILOT_CURRENCIES[currency]['commodities']
PILOT_CURRENCIES(currency) ==
    IF currency = "GHS" THEN {"Gold", "Cocoa"} ELSE {"Steel", "Textiles"}

\* COMMODITY_SYMBOLS.get(commodity_name): None for Textiles
has_symbol(commodity_name) == commodity_name # "Textiles"

\* the files the two globs find are the caches that exist
should_prefetch(fxc, cc) ==
    LET fx_files == {c \in FxCurrencies : fxc[c].exists}
        comm_files == {n \in DOMAIN cc : cc[n] # "absent"}
    IN  IF fx_files = {} THEN TRUE
        ELSE IF \E c \in fx_files : ~is_cache_valid(fxc[c]) THEN TRUE
        ELSE IF comm_files = {} THEN TRUE
        ELSE IF \E n \in comm_files : cc[n] # "fresh" THEN TRUE
        ELSE FALSE

\* get_commodities_for_currency on one commodity: a fresh cache is served,
\* otherwise a non-empty fetch is written to the cache
commodity_cache_after(status, commodity_name, ok) ==
    IF status = "fresh" THEN "fresh"
    ELSE IF has_symbol(commodity_name) /\ ok THEN "fresh"
    ELSE status

get_all_commodities(cc, currencies, answered) ==
    [n \in DOMAIN cc |->
        IF \E c \in currencies : n \in PILOT_CURRENCIES(c)
        THEN commodity_cache_after(cc[n], n, n \in answered)
        ELSE cc[n]]

\* the network during a prefetch: each currency's fetch answers at once or not
\* at all, and so does each commodity's that has a symbol
PrefetchFxEnvironments == {e \in FxEnvironments : e.first_ok <= 1 /\ e.write = "ok"}

PrefetchAllData ==
    \E envs \in [FxCurrencies -> PrefetchFxEnvironments],
       answered \in SUBSET {"Gold", "Cocoa", "Steel"} :
        LET needed == should_prefetch(fx_cache, comm_cache)
        IN  /\ prefetch_call' = [called |-> TRUE, needed |-> needed, fetched |-> needed,
                                 fx_before |-> fx_cache, comm_before |-> comm_cache]
            /\ IF needed
               THEN /\ FxStep(FxCurrencies, 1, MaxFxDay, TRUE, envs)
                    /\ comm_cache' = get_all_commodities(comm_cache, FxCurrencies, answered)
               ELSE UNCHANGED <<fx_call, fx_result, fx_cache, comm_cache>>
            /\ UNCHANGED <<detVars, corVars, provVars, windowVars, scoreVars,
                           analysisVars, grant_call, commodity_call, etlVars, noteVars>>

-----------------------------------------------------------------------------
(* Specification SpecPrefetch: prefetch_all_data at start-up, again and     *)
(* again, with the network answering or not and the caches ageing           *)

NextPrefetch == PrefetchAllData \/ CachesExpire

SpecPrefetch == InitFx /\ [][NextPrefetch]_vars

\* C23: should_prefetch is True if the cache of any pilot currency's FX series
\* or of any of its commodities is missing or older than 12 hours, False only
\* when every such cache exists and is fresh; prefetch_all_data fetches
\* exactly when should_prefetch is True.
C23_PrefetchWhenAnyCacheStale ==
    prefetch_call.called =>
        /\ prefetch_call.needed
              <=> \E c \in FxCurrencies :
                     \/ ~prefetch_call.fx_before[c].exists
                     \/ ~prefetch_call.fx_before[c].fresh
                     \/ \E n \in PILOT_CURRENCIES(c) : prefetch_call.comm_before[n] # "fresh"
        /\ prefetch_call.fetched <=> prefetch_call.needed

-----------------------------------------------------------------------------
(* persistence.py: research notes kept in one file, anomaly_notes.json     *)

NoteTexts == {"rate shock", "data error"}

\* notes.get(anomaly_id, '') on what load_notes read
get_note(notes, anomaly_id) ==
    IF anomaly_id \in DOMAIN notes THEN notes[anomaly_id] ELSE ""

\* notes = load_notes(); notes[anomaly_id] = note_text; json.dump(notes, f)
save_note(notes, anomaly_id, note_text) ==
    [id \in DOMAIN notes \cup {anomaly_id} |->
        IF id = anomaly_id THEN note_text ELSE notes[id]]

\* what get_fx_data returns to the dashboard for the currency on screen
DashboardFx(currency) ==
    IF currency = "GHS"
    THEN <<[date |-> 0, rate |-> 100], [date |-> 1, rate |-> 110],
           [date |-> 8, rate |-> 100], [date |-> 9, rate |-> 110]>>
    ELSE <<[date |-> 0, rate |-> 100], [date |-> 1, rate |-> 120],
           [date |-> 4, rate |-> 120], [date |-> 5, rate |-> 100]>>

InitNotes ==
    /\ selected_currency \in FxCurrencies
    /\ fx_data = DashboardFx(selected_currency)
    /\ det_call = [threshold_percent |-> 0, window_days |-> 0]
    /\ anomalies = <<>>
    /\ det_pc = "idle"
    /\ notes_file = <<>>
    /\ note_view = NoNoteView
    /\ note_saves = {}
    /\ NoCorrelation
    /\ NoProvider
    /\ NoWindows
    /\ NoScore
    /\ analysis_call = NoAnalysisCall
    /\ analysis_results = <<>>
    /\ grant_call = NoGrantCall
    /\ commodity_call = NoCommodityCall
    /\ NoEtl
    /\ NoFx

\* a run of render_anomaly_dashboard that detects: the first load, a change of
\* currency, threshold or window, or the Detect Anomalies button
RenderDashboard ==
    \E currency \in FxCurrencies, t \in Thresholds, w \in WindowDays :
        /\ selected_currency' = currency
        /\ fx_data' = DashboardFx(currency)
        /\ det_call' = [threshold_percent |-> t, window_days |-> w]
        /\ anomalies' = detect_steep_movements(DashboardFx(currency), t, w)
        /\ det_pc' = "detected"
        /\ UNCHANGED <<corVars, provVars, windowVars, scoreVars, analysisVars,
                       grant_call, commodity_call, etlVars, fxVars,
                       notes_file, note_view, note_saves>>

\* the Research Notes box of the selected anomaly is drawn
ShowNote ==
    /\ det_pc = "detected"
    /\ \E selected_idx \in 1..Len(anomalies) :
        LET anomaly_id == generate_anomaly_id(anomalies[selected_idx])
        IN  note_view' = [shown        |-> TRUE,
                          currency     |-> selected_currency,
                          anomaly_id   |-> anomaly_id,
                          current_note |-> get_note(notes_file, anomaly_id)]
    /\ UNCHANGED <<detVars, corVars, provVars, windowVars, scoreVars, analysisVars,
                   grant_call, commodity_call, etlVars, fxVars,
                   selected_currency, notes_file, note_saves>>

\* the Save Note button under the selected anomaly
SaveNote ==
    /\ det_pc = "detected"
    /\ \E selected_idx \in 1..Len(anomalies), note_text \in NoteTexts :
        LET anomaly_id == generate_anomaly_id(anomalies[selected_idx])
        IN  /\ notes_file' = save_note(notes_file, anomaly_id, note_text)
            /\ note_saves' = note_saves \cup {[currency   |-> selected_currency,
                                               anomaly_id |-> anomaly_id,
                                               note_text  |-> note_text]}
    /\ UNCHANGED <<detVars, corVars, provVars, windowVars, scoreVars, analysisVars,
                   grant_call, commodity_call, etlVars, fxVars,
                   selected_currency, note_view>>

-----------------------------------------------------------------------------
(* Specification SpecNotes: one dashboard session, switching currency,     *)
(* detecting, reading and saving notes                                      *)

NextNotes == RenderDashboard \/ ShowNote \/ SaveNote

SpecNotes == InitNotes /\ [][NextNotes]_vars

\* C26: a note saved under the id of an anomaly of one currency is shown
\* only for that anomaly: whatever note the box shows for an anomaly of the
\* currency on screen was saved while that currency was on screen, never
\* written for another currency's anomaly.
C26_NoteShownOnlyForItsCurrency ==
    (note_view.shown /\ note_view.current_note # "") =>
        \E s \in note_saves :
            /\ s.currency = note_view.currency
            /\ s.anomaly_id = note_view.anomaly_id
            /\ s.note_text = note_view.current_note

=============================================================================
